---- MODULE Spec2Model ----
(***************************************************************************)
(* A model of umm_malloc (src/src/libc/umm_malloc/umm_malloc.c): the heap  *)
(* is a byte array cut into blocks of UMM_BLOCKSIZE bytes; every link is a *)
(* 16-bit block index stored in the block itself, and the free-list links  *)
(* overlay the first bytes of a block's body.                              *)
(***************************************************************************)
EXTENDS Integers, Naturals, Sequences, FiniteSets, TLC

(* ------------------------------------------------------------------ *)
(* Bounds of the model                                                 *)
(* ------------------------------------------------------------------ *)

\* The largest heap of the model holds MaxBlocks blocks.
MaxBlocks == 7

(* ------------------------------------------------------------------ *)
(* Program constants                                                   *)
(* ------------------------------------------------------------------ *)

UMM_BLOCK_BODY_SIZE == 8

UMM_FREELIST_MASK == 32768

UMM_BLOCKNO_MASK == 32767

INT16_MAX == (2 ^ 15) - 1

\* sizeof(struct umm_ptr_t): two uint16_t.
SizeofPtr == 2 + 2

\* sizeof(((umm_block *)0)->header) and ->body.
SizeofHeader == SizeofPtr

SizeofBody == UMM_BLOCK_BODY_SIZE - SizeofPtr

UMM_BLOCKSIZE == SizeofHeader + SizeofBody

\* size_t is 32 bits wide on the wasm32 target; SIZE_MAX is 2^32 - 1.
\* (Written in halves: TLC's integers are themselves 32 bits wide.)
SIZE_HALF == 2 ^ 16

\* The largest size the model writes down.  A size of 2^31 or more is kept
\* as SIZE_TOP: umm_blocks gives INT16_MAX blocks for every one of them.
SIZE_TOP == (2 ^ 30 - 1) + 2 ^ 30

\* A count that, times 3, is 2^32 + 2.
CALLOC_WRAP_NUM == ((SIZE_TOP \div 3) * 2) + 2

NULL == 0

\* The address of the region handed to umm_init_heap.
UMM_MALLOC_CFG_HEAP_ADDR == 2 ^ 16

\* The region size umm_init_heap is called with: MaxBlocks blocks and a
\* remainder that the division drops.
HeapSizes == {UMM_BLOCKSIZE * MaxBlocks + 3}

\* The sizes asked of umm_malloc and umm_realloc: 0, the smallest size that
\* needs a second block, and for every block count the largest size it holds
\* (the last one more than the heap can give).
AllocSizes ==
  {0, SizeofBody + 1} \cup {UMM_BLOCKSIZE * j + SizeofBody : j \in 0 .. MaxBlocks - 2}

\* The arguments of umm_calloc; 2^16 * 2^16 and CALLOC_WRAP_NUM * 3 exceed
\* size_t.
CallocNums == {0, 3, SIZE_HALF, CALLOC_WRAP_NUM}

CallocItemSizes == {0, 3, SIZE_HALF}

FitPolicies == {"UMM_BEST_FIT", "UMM_FIRST_FIT"}

(* ------------------------------------------------------------------ *)
(* 16-bit arithmetic                                                   *)
(* ------------------------------------------------------------------ *)

U16(x) == x % 65536

\* x & UMM_BLOCKNO_MASK
BlockNo(x) == x % UMM_FREELIST_MASK

\* x & UMM_FREELIST_MASK
FreeBit(x) == ((x \div UMM_FREELIST_MASK) % 2) * UMM_FREELIST_MASK

\* x | mask, for mask either 0 or UMM_FREELIST_MASK
OrMask(x, mask) == IF mask = 0 \/ FreeBit(x) # 0 THEN x ELSE x + UMM_FREELIST_MASK

\* x & ~UMM_FREELIST_MASK, on a uint16_t
ClearFreeBit(x) == x - FreeBit(x)

Min(a, b) == IF a < b THEN a ELSE b

\* (size_t)(a * b): the product modulo 2^32, for a, b < 2^31, computed in
\* 16-bit halves: lo and hi are the halves of the result.
SizeMul(a, b) ==
  LET ah == a \div SIZE_HALF
      al == a % SIZE_HALF
      bh == b \div SIZE_HALF
      bl == b % SIZE_HALF
      t0 == (al % 256) * bl
      t1 == (al \div 256) * bl
      x  == ((t1 % 256) * 256) + t0
      lo == x % SIZE_HALF
      carry == (x \div SIZE_HALF) + (t1 \div 256)
      hi == (carry + ((ah * bl) % SIZE_HALF) + ((al * bh) % SIZE_HALF)) % SIZE_HALF
  IN  IF hi >= SIZE_HALF \div 2 THEN SIZE_TOP ELSE (hi * SIZE_HALF) + lo

\* The true product a * b is more than SIZE_MAX = 2 * SIZE_TOP + 1.
ProductExceedsSizeT(a, b) ==
  /\ a >= 2
  /\ b > (2 * (SIZE_TOP \div a)) + (((2 * (SIZE_TOP % a)) + 1) \div a)

(* ------------------------------------------------------------------ *)
(* The heap memory: bytes at offsets from UMM_HEAP, little endian      *)
(* ------------------------------------------------------------------ *)

Rd16(mem, a) == mem[a] + 256 * mem[a + 1]

Wr16(mem, a, v) == [mem EXCEPT ![a] = v % 256, ![a + 1] = (v \div 256) % 256]

\* Offsets of the four link fields of block b, and of its body.
OffNBLOCK(b) == b * UMM_BLOCKSIZE

OffPBLOCK(b) == b * UMM_BLOCKSIZE + 2

OffNFREE(b) == b * UMM_BLOCKSIZE + SizeofHeader

OffPFREE(b) == b * UMM_BLOCKSIZE + SizeofHeader + 2

OffDATA(b) == b * UMM_BLOCKSIZE + SizeofHeader

\* A heap u is [mem, pheap, heap_size, numblocks, info]: the region's bytes,
\* umm_heap_current and ummHeapInfo.
UMM_NBLOCK(u, b) == Rd16(u.mem, OffNBLOCK(b))

UMM_PBLOCK(u, b) == Rd16(u.mem, OffPBLOCK(b))

UMM_NFREE(u, b) == Rd16(u.mem, OffNFREE(b))

UMM_PFREE(u, b) == Rd16(u.mem, OffPFREE(b))

SetNBLOCK(u, b, v) == [u EXCEPT !.mem = Wr16(@, OffNBLOCK(b), U16(v))]

SetPBLOCK(u, b, v) == [u EXCEPT !.mem = Wr16(@, OffPBLOCK(b), U16(v))]

SetNFREE(u, b, v) == [u EXCEPT !.mem = Wr16(@, OffNFREE(b), U16(v))]

SetPFREE(u, b, v) == [u EXCEPT !.mem = Wr16(@, OffPFREE(b), U16(v))]

UMM_BLOCK_LAST(u) == u.numblocks - 1

\* The address of the block instead of that of its body.
DataPtr_block_start(u, b) == u.pheap + OffNBLOCK(b)

\* (void *)&UMM_DATA(b)
DataPtr(u, b) == u.pheap + OffDATA(b)

\* c = (((uint8_t *)ptr) - (uint8_t *)(&(UMM_HEAP[0]))) / UMM_BLOCKSIZE
BlockOf(u, ptr) == U16((ptr - u.pheap) \div UMM_BLOCKSIZE)

\* memmove and memcpy of n bytes between offsets of the heap.
MemMove(mem, dst, src, n) ==
  [a \in DOMAIN mem |-> IF a >= dst /\ a < dst + n THEN mem[src + (a - dst)] ELSE mem[a]]

MemSet(mem, dst, val, n) ==
  [a \in DOMAIN mem |-> IF a >= dst /\ a < dst + n THEN val ELSE mem[a]]

(* ------------------------------------------------------------------ *)
(* Inline fragmentation metric                                         *)
(* ------------------------------------------------------------------ *)

\* ummHeapInfo as the program starts, and after umm_info's memset.
ZeroInfo ==
  [totalEntries |-> 0, usedEntries |-> 0, freeEntries |-> 0,
   totalBlocks |-> 0, usedBlocks |-> 0, freeBlocks |-> 0,
   freeBlocksSquared |-> 0, maxFreeContiguousBlocks |-> 0,
   usage_metric |-> 0, fragmentation_metric |-> 0]

umm_fragmentation_metric_init(u) ==
  LET fb == u.numblocks - 2
  IN  [u EXCEPT !.info.freeBlocks = fb, !.info.freeBlocksSquared = fb * fb]

umm_fragmentation_metric_add(u, c) ==
  LET blocks == U16(BlockNo(UMM_NBLOCK(u, c)) - c)
  IN  [u EXCEPT !.info.freeBlocks = @ + blocks, !.info.freeBlocksSquared = @ + blocks * blocks]

umm_fragmentation_metric_remove(u, c) ==
  LET blocks == U16(BlockNo(UMM_NBLOCK(u, c)) - c)
  IN  [u EXCEPT !.info.freeBlocks = @ - blocks, !.info.freeBlocksSquared = @ - blocks * blocks]

(* ------------------------------------------------------------------ *)
(* Block arithmetic and the free-list primitives                       *)
(* ------------------------------------------------------------------ *)

\* Sequencing: the value of e is computed once and handed to what follows,
\* as a C statement's effect is to the statements after it.
Do(e, F(_)) == CHOOSE r \in {F(v) : v \in {e}} : TRUE

\* umm_blocks that divides the size, not the size less one.
umm_blocks_divides_size(size) ==
  IF size <= SizeofBody
    THEN 1
    ELSE LET sz == size - SizeofBody
             blocks == 2 + (sz \div UMM_BLOCKSIZE)
         IN  IF blocks > INT16_MAX THEN INT16_MAX ELSE blocks

\* umm_blocks that counts one block less for what exceeds the first body.
umm_blocks_one_short(size) ==
  IF size <= SizeofBody
    THEN 1
    ELSE LET sz == size - SizeofBody
             blocks == 1 + ((sz - 1) \div UMM_BLOCKSIZE)
         IN  IF blocks > INT16_MAX THEN INT16_MAX ELSE blocks

\* umm_blocks that takes a whole block, not its body, for what one block holds.
umm_blocks_whole_first_block(size) ==
  IF size <= UMM_BLOCKSIZE
    THEN 1
    ELSE LET sz == size - SizeofBody
             blocks == 2 + ((sz - 1) \div UMM_BLOCKSIZE)
         IN  IF blocks > INT16_MAX THEN INT16_MAX ELSE blocks

umm_blocks(size) ==
  IF size <= SizeofBody
    THEN 1
    ELSE LET sz == size - SizeofBody
             blocks == 2 + ((sz - 1) \div UMM_BLOCKSIZE)
         IN  IF blocks > INT16_MAX THEN INT16_MAX ELSE blocks

\* umm_split_block without the update of the following block's prev_block.
umm_split_block_stale_backlink(u, c, blocks, new_freemask) ==
  Do(SetNBLOCK(u, c + blocks, OrMask(BlockNo(UMM_NBLOCK(u, c)), new_freemask)), LAMBDA u1 :
  Do(SetPBLOCK(u1, c + blocks, c), LAMBDA u2 :
  SetNBLOCK(u2, c, c + blocks)))

umm_split_block(u, c, blocks, new_freemask) ==
  Do(SetNBLOCK(u, c + blocks, OrMask(BlockNo(UMM_NBLOCK(u, c)), new_freemask)), LAMBDA u1 :
  Do(SetPBLOCK(u1, c + blocks, c), LAMBDA u2 :
  Do(SetPBLOCK(u2, BlockNo(UMM_NBLOCK(u2, c)), c + blocks), LAMBDA u3 :
  SetNBLOCK(u3, c, c + blocks))))

\* umm_disconnect_from_free_list without the clearing of the free flag.
umm_disconnect_keeps_flag(u, c) ==
  Do(SetNFREE(u, UMM_PFREE(u, c), UMM_NFREE(u, c)), LAMBDA u1 :
  SetPFREE(u1, UMM_NFREE(u1, c), UMM_PFREE(u1, c)))

umm_disconnect_from_free_list(u, c) ==
  Do(SetNFREE(u, UMM_PFREE(u, c), UMM_NFREE(u, c)), LAMBDA u1 :
  Do(SetPFREE(u1, UMM_NFREE(u1, c), UMM_PFREE(u1, c)), LAMBDA u2 :
  SetNBLOCK(u2, c, ClearFreeBit(UMM_NBLOCK(u2, c)))))

\* umm_assimilate_up that never merges.
umm_assimilate_up_never(u, c) == u

umm_assimilate_up(u, c) ==
  IF FreeBit(UMM_NBLOCK(u, UMM_NBLOCK(u, c))) # 0
    THEN Do(umm_fragmentation_metric_remove(u, UMM_NBLOCK(u, c)), LAMBDA u1 :
         Do(umm_disconnect_from_free_list(u1, UMM_NBLOCK(u1, c)), LAMBDA u2 :
         Do(SetPBLOCK(u2, BlockNo(UMM_NBLOCK(u2, UMM_NBLOCK(u2, c))), c), LAMBDA u3 :
         SetNBLOCK(u3, c, BlockNo(UMM_NBLOCK(u3, UMM_NBLOCK(u3, c)))))))
    ELSE u

\* Returns the heap and the index of the enlarged predecessor.
umm_assimilate_down(u, c, freemask) ==
  Do(umm_fragmentation_metric_remove(u, UMM_PBLOCK(u, c)), LAMBDA u1 :
  Do(SetNBLOCK(u1, UMM_PBLOCK(u1, c), OrMask(UMM_NBLOCK(u1, c), freemask)), LAMBDA u2 :
  Do(SetPBLOCK(u2, UMM_NBLOCK(u2, c), UMM_PBLOCK(u2, c)), LAMBDA u3 :
  Do(IF freemask # 0 THEN umm_fragmentation_metric_add(u3, UMM_PBLOCK(u3, c)) ELSE u3, LAMBDA u4 :
  [u |-> u4, c |-> UMM_PBLOCK(u4, c)]))))

(* ------------------------------------------------------------------ *)
(* umm_init_heap                                                       *)
(* ------------------------------------------------------------------ *)

\* umm_init_heap without the setup of block 0's next_block.
umm_init_heap_no_head(ptr, size) ==
  Do([mem |-> [a \in 0 .. size - 1 |-> 0],
      pheap |-> ptr,
      heap_size |-> size,
      numblocks |-> U16(size \div UMM_BLOCKSIZE),
      info |-> ZeroInfo], LAMBDA u0 :
  Do(umm_fragmentation_metric_init(u0), LAMBDA u1 :
  Do(SetNFREE(u1, 0, 1), LAMBDA u3 :
  Do(SetPFREE(u3, 0, 1), LAMBDA u4 :
  Do(SetNBLOCK(u4, 1, OrMask(UMM_BLOCK_LAST(u4), UMM_FREELIST_MASK)), LAMBDA u5 :
  SetPBLOCK(u5, UMM_BLOCK_LAST(u5), 1))))))

umm_init_heap(ptr, size) ==
  Do([mem |-> [a \in 0 .. size - 1 |-> 0],
      pheap |-> ptr,
      heap_size |-> size,
      numblocks |-> U16(size \div UMM_BLOCKSIZE),
      info |-> ZeroInfo], LAMBDA u0 :
  Do(umm_fragmentation_metric_init(u0), LAMBDA u1 :
  Do(SetNBLOCK(u1, 0, 1), LAMBDA u2 :
  Do(SetNFREE(u2, 0, 1), LAMBDA u3 :
  Do(SetPFREE(u3, 0, 1), LAMBDA u4 :
  Do(SetNBLOCK(u4, 1, OrMask(UMM_BLOCK_LAST(u4), UMM_FREELIST_MASK)), LAMBDA u5 :
  SetPBLOCK(u5, UMM_BLOCK_LAST(u5), 1)))))))

(* ------------------------------------------------------------------ *)
(* umm_free                                                            *)
(* ------------------------------------------------------------------ *)

\* umm_free_core that does not look at the block that follows.
umm_free_core_no_merge_up(u, ptr) ==
  LET c == BlockOf(u, ptr)
  IN  IF FreeBit(UMM_NBLOCK(u, UMM_PBLOCK(u, c))) # 0
        THEN umm_assimilate_down(u, c, UMM_FREELIST_MASK).u
        ELSE Do(umm_fragmentation_metric_add(u, c), LAMBDA u2 :
             Do(SetPFREE(u2, UMM_NFREE(u2, 0), c), LAMBDA u3 :
             Do(SetNFREE(u3, c, UMM_NFREE(u3, 0)), LAMBDA u4 :
             Do(SetPFREE(u4, c, 0), LAMBDA u5 :
             Do(SetNFREE(u5, 0, c), LAMBDA u6 :
             SetNBLOCK(u6, c, OrMask(UMM_NBLOCK(u6, c), UMM_FREELIST_MASK)))))))

\* umm_free_core that does not look at the block in front.
umm_free_core_no_merge_down(u, ptr) ==
  LET c == BlockOf(u, ptr)
  IN  Do(umm_assimilate_up(u, c), LAMBDA u1 :
      Do(umm_fragmentation_metric_add(u1, c), LAMBDA u2 :
      Do(SetPFREE(u2, UMM_NFREE(u2, 0), c), LAMBDA u3 :
      Do(SetNFREE(u3, c, UMM_NFREE(u3, 0)), LAMBDA u4 :
      Do(SetPFREE(u4, c, 0), LAMBDA u5 :
      Do(SetNFREE(u5, 0, c), LAMBDA u6 :
      SetNBLOCK(u6, c, OrMask(UMM_NBLOCK(u6, c), UMM_FREELIST_MASK))))))))

\* umm_free_core whose head insertion leaves the prev_free of the old head
\* (of block 0, on an empty ring) as it was.
umm_free_core_no_head_backlink(u, ptr) ==
  LET c == BlockOf(u, ptr)
  IN  Do(umm_assimilate_up(u, c), LAMBDA u1 :
      IF FreeBit(UMM_NBLOCK(u1, UMM_PBLOCK(u1, c))) # 0
        THEN umm_assimilate_down(u1, c, UMM_FREELIST_MASK).u
        ELSE Do(umm_fragmentation_metric_add(u1, c), LAMBDA u2 :
             Do(SetNFREE(u2, c, UMM_NFREE(u2, 0)), LAMBDA u4 :
             Do(SetPFREE(u4, c, 0), LAMBDA u5 :
             Do(SetNFREE(u5, 0, c), LAMBDA u6 :
             SetNBLOCK(u6, c, OrMask(UMM_NBLOCK(u6, c), UMM_FREELIST_MASK)))))))

umm_free_core(u, ptr) ==
  LET c == BlockOf(u, ptr)
  IN  Do(umm_assimilate_up(u, c), LAMBDA u1 :
      IF FreeBit(UMM_NBLOCK(u1, UMM_PBLOCK(u1, c))) # 0
        THEN umm_assimilate_down(u1, c, UMM_FREELIST_MASK).u
        ELSE Do(umm_fragmentation_metric_add(u1, c), LAMBDA u2 :
             Do(SetPFREE(u2, UMM_NFREE(u2, 0), c), LAMBDA u3 :
             Do(SetNFREE(u3, c, UMM_NFREE(u3, 0)), LAMBDA u4 :
             Do(SetPFREE(u4, c, 0), LAMBDA u5 :
             Do(SetNFREE(u5, 0, c), LAMBDA u6 :
             SetNBLOCK(u6, c, OrMask(UMM_NBLOCK(u6, c), UMM_FREELIST_MASK))))))))

umm_free_null_counts_head(u, ptr) ==
  IF ptr = NULL THEN umm_fragmentation_metric_add(u, 0) ELSE umm_free_core(u, ptr)

\* umm_free that gives nothing back.
umm_free_leaves_block(u, ptr) == u

umm_free(u, ptr) ==
  IF ptr = NULL THEN u ELSE umm_free_core(u, ptr)

(* ------------------------------------------------------------------ *)
(* umm_malloc                                                          *)
(* ------------------------------------------------------------------ *)

\* The loop with bestSize replaced also by a run of the same size.
RECURSIVE FreeListScan_last_of_ties(_, _, _, _, _, _, _, _)
FreeListScan_last_of_ties(u, fit, blocks, cf, blockSize, bestBlock, bestSize, n) ==
  IF cf = 0
    THEN [cf |-> cf, blockSize |-> blockSize, bestBlock |-> bestBlock,
          bestSize |-> bestSize, visited |-> n, diverged |-> FALSE]
  ELSE IF n > u.numblocks
    THEN [cf |-> cf, blockSize |-> blockSize, bestBlock |-> bestBlock,
          bestSize |-> bestSize, visited |-> n, diverged |-> TRUE]
  ELSE Do(U16(BlockNo(UMM_NBLOCK(u, cf)) - cf), LAMBDA bs :
       Do(UMM_NFREE(u, cf), LAMBDA nf :
       IF fit = "UMM_BEST_FIT"
         THEN IF bs >= blocks /\ bs <= bestSize
                THEN FreeListScan_last_of_ties(u, fit, blocks, nf, bs, cf, bs, n + 1)
                ELSE FreeListScan_last_of_ties(u, fit, blocks, nf, bs, bestBlock, bestSize, n + 1)
         ELSE IF bs >= blocks
                THEN [cf |-> cf, blockSize |-> bs, bestBlock |-> bestBlock,
                      bestSize |-> bestSize, visited |-> n + 1, diverged |-> FALSE]
                ELSE FreeListScan_last_of_ties(u, fit, blocks, nf, bs, bestBlock, bestSize, n + 1)))

\* The loop that looks for the smallest run under either policy.
RECURSIVE FreeListScan_always_best(_, _, _, _, _, _, _, _)
FreeListScan_always_best(u, fit, blocks, cf, blockSize, bestBlock, bestSize, n) ==
  IF cf = 0
    THEN [cf |-> cf, blockSize |-> blockSize, bestBlock |-> bestBlock,
          bestSize |-> bestSize, visited |-> n, diverged |-> FALSE]
  ELSE IF n > u.numblocks
    THEN [cf |-> cf, blockSize |-> blockSize, bestBlock |-> bestBlock,
          bestSize |-> bestSize, visited |-> n, diverged |-> TRUE]
  ELSE Do(U16(BlockNo(UMM_NBLOCK(u, cf)) - cf), LAMBDA bs :
       Do(UMM_NFREE(u, cf), LAMBDA nf :
       IF fit \in FitPolicies
         THEN IF bs >= blocks /\ bs < bestSize
                THEN FreeListScan_always_best(u, fit, blocks, nf, bs, cf, bs, n + 1)
                ELSE FreeListScan_always_best(u, fit, blocks, nf, bs, bestBlock, bestSize, n + 1)
         ELSE IF bs >= blocks
                THEN [cf |-> cf, blockSize |-> bs, bestBlock |-> bestBlock,
                      bestSize |-> bestSize, visited |-> n + 1, diverged |-> FALSE]
                ELSE FreeListScan_always_best(u, fit, blocks, nf, bs, bestBlock, bestSize, n + 1)))

\* The loop without cf = UMM_NFREE(cf): the walk stays on a node it does not take.
RECURSIVE FreeListScan_no_advance(_, _, _, _, _, _, _, _)
FreeListScan_no_advance(u, fit, blocks, cf, blockSize, bestBlock, bestSize, n) ==
  IF cf = 0
    THEN [cf |-> cf, blockSize |-> blockSize, bestBlock |-> bestBlock,
          bestSize |-> bestSize, visited |-> n, diverged |-> FALSE]
  ELSE IF n > u.numblocks
    THEN [cf |-> cf, blockSize |-> blockSize, bestBlock |-> bestBlock,
          bestSize |-> bestSize, visited |-> n, diverged |-> TRUE]
  ELSE Do(U16(BlockNo(UMM_NBLOCK(u, cf)) - cf), LAMBDA bs :
       IF fit = "UMM_BEST_FIT"
         THEN IF bs >= blocks /\ bs < bestSize
                THEN FreeListScan_no_advance(u, fit, blocks, cf, bs, cf, bs, n + 1)
                ELSE FreeListScan_no_advance(u, fit, blocks, cf, bs, bestBlock, bestSize, n + 1)
         ELSE IF bs >= blocks
                THEN [cf |-> cf, blockSize |-> bs, bestBlock |-> bestBlock,
                      bestSize |-> bestSize, visited |-> n + 1, diverged |-> FALSE]
                ELSE FreeListScan_no_advance(u, fit, blocks, cf, bs, bestBlock, bestSize, n + 1))

\* The while (cf) loop of umm_malloc_core, entered with n blocks visited.
\* The loop of the code has no bound of its own: a walk that visits more
\* nodes than the heap has blocks is on a cycle and never ends (diverged).
RECURSIVE FreeListScan(_, _, _, _, _, _, _, _)
FreeListScan(u, fit, blocks, cf, blockSize, bestBlock, bestSize, n) ==
  IF cf = 0
    THEN [cf |-> cf, blockSize |-> blockSize, bestBlock |-> bestBlock,
          bestSize |-> bestSize, visited |-> n, diverged |-> FALSE]
  ELSE IF n > u.numblocks
    THEN [cf |-> cf, blockSize |-> blockSize, bestBlock |-> bestBlock,
          bestSize |-> bestSize, visited |-> n, diverged |-> TRUE]
  ELSE Do(U16(BlockNo(UMM_NBLOCK(u, cf)) - cf), LAMBDA bs :
       Do(UMM_NFREE(u, cf), LAMBDA nf :
       IF fit = "UMM_BEST_FIT"
         THEN IF bs >= blocks /\ bs < bestSize
                THEN FreeListScan(u, fit, blocks, nf, bs, cf, bs, n + 1)
                ELSE FreeListScan(u, fit, blocks, nf, bs, bestBlock, bestSize, n + 1)
         ELSE IF bs >= blocks
                THEN [cf |-> cf, blockSize |-> bs, bestBlock |-> bestBlock,
                      bestSize |-> bestSize, visited |-> n + 1, diverged |-> FALSE]
                ELSE FreeListScan(u, fit, blocks, nf, bs, bestBlock, bestSize, n + 1)))

\* A scan that settles on the first node of the ring whatever its size.
ScanChoice_first_node(u, fit, blocks) ==
  [cf |-> UMM_NFREE(u, 0), blockSize |-> blocks, visited |-> 1, diverged |-> FALSE]

\* The block the scan settles on: cf and blockSize after the bestSize test.
ScanChoice(u, fit, blocks) ==
  Do(FreeListScan(u, fit, blocks, UMM_NFREE(u, 0), 0, UMM_NFREE(u, 0), UMM_BLOCKNO_MASK, 0), LAMBDA s :
  IF UMM_BLOCKNO_MASK # s.bestSize
    THEN [cf |-> s.bestBlock, blockSize |-> s.bestSize, visited |-> s.visited, diverged |-> s.diverged]
    ELSE [cf |-> s.cf, blockSize |-> s.blockSize, visited |-> s.visited, diverged |-> s.diverged])

\* MallocTake without the prev_free link of the split-off free block.
MallocTake_no_prev_free(u, cf, blockSize, blocks) ==
  Do(umm_fragmentation_metric_remove(u, cf), LAMBDA u1 :
  IF blockSize = blocks
    THEN umm_disconnect_from_free_list(u1, cf)
    ELSE Do(umm_split_block(u1, cf, blocks, UMM_FREELIST_MASK), LAMBDA u2 :
         Do(umm_fragmentation_metric_add(u2, UMM_NBLOCK(u2, cf)), LAMBDA u3 :
         Do(SetNFREE(u3, UMM_PFREE(u3, cf), cf + blocks), LAMBDA u4 :
         Do(SetPFREE(u4, UMM_NFREE(u4, cf), cf + blocks), LAMBDA u6 :
         SetNFREE(u6, cf + blocks, UMM_NFREE(u6, cf)))))))

\* The body of if (UMM_NBLOCK(cf) & UMM_BLOCKNO_MASK && blockSize >= blocks).
MallocTake(u, cf, blockSize, blocks) ==
  Do(umm_fragmentation_metric_remove(u, cf), LAMBDA u1 :
  IF blockSize = blocks
    THEN umm_disconnect_from_free_list(u1, cf)
    ELSE Do(umm_split_block(u1, cf, blocks, UMM_FREELIST_MASK), LAMBDA u2 :
         Do(umm_fragmentation_metric_add(u2, UMM_NBLOCK(u2, cf)), LAMBDA u3 :
         Do(SetNFREE(u3, UMM_PFREE(u3, cf), cf + blocks), LAMBDA u4 :
         Do(SetPFREE(u4, cf + blocks, UMM_PFREE(u4, cf)), LAMBDA u5 :
         Do(SetPFREE(u5, UMM_NFREE(u5, cf), cf + blocks), LAMBDA u6 :
         SetNFREE(u6, cf + blocks, UMM_NFREE(u6, cf))))))))

\* umm_malloc_core that takes a free run only if it is larger than asked.
umm_malloc_core_no_exact_fit(u, fit, size) ==
  Do(umm_blocks(size), LAMBDA blocks :
  Do(ScanChoice(u, fit, blocks), LAMBDA ch :
  IF ch.diverged
    THEN [u |-> u, ptr |-> NULL, diverged |-> TRUE]
  ELSE IF BlockNo(UMM_NBLOCK(u, ch.cf)) # 0 /\ ch.blockSize > blocks
    THEN [u |-> MallocTake(u, ch.cf, ch.blockSize, blocks),
          ptr |-> DataPtr(u, ch.cf), diverged |-> FALSE]
    ELSE [u |-> u, ptr |-> NULL, diverged |-> FALSE]))

\* Returns [u, ptr, diverged].
umm_malloc_core(u, fit, size) ==
  Do(umm_blocks(size), LAMBDA blocks :
  Do(ScanChoice(u, fit, blocks), LAMBDA ch :
  IF ch.diverged
    THEN [u |-> u, ptr |-> NULL, diverged |-> TRUE]
  ELSE IF BlockNo(UMM_NBLOCK(u, ch.cf)) # 0 /\ ch.blockSize >= blocks
    THEN [u |-> MallocTake(u, ch.cf, ch.blockSize, blocks),
          ptr |-> DataPtr(u, ch.cf), diverged |-> FALSE]
    ELSE [u |-> u, ptr |-> NULL, diverged |-> FALSE]))

umm_malloc_no_zero_test(u, fit, size) ==
  umm_malloc_core(u, fit, size)

umm_malloc(u, fit, size) ==
  IF 0 = size
    THEN [u |-> u, ptr |-> NULL, diverged |-> FALSE]
    ELSE umm_malloc_core(u, fit, size)

(* ------------------------------------------------------------------ *)
(* umm_realloc                                                         *)
(* ------------------------------------------------------------------ *)

\* The split with the tail set free where it is, the run behind it left
\* alone.
ReallocSplitAndFree_no_merge(u, c, blockSize, blocks) ==
  IF blockSize > blocks
    THEN Do(umm_split_block(u, c, blocks, 0), LAMBDA u1 :
         umm_free_core_no_merge_up(u1, DataPtr(u1, c + blocks)))
    ELSE u

\* ReallocSplitAndFree that leaves the block as long as it has become.
ReallocSplitAndFree_keeps_all(u, c, blockSize, blocks) == u

\* if (blockSize > blocks) { umm_split_block(...); umm_free_core(...); }
ReallocSplitAndFree(u, c, blockSize, blocks) ==
  IF blockSize > blocks
    THEN Do(umm_split_block(u, c, blocks, 0), LAMBDA u1 :
         umm_free_core(u1, DataPtr(u1, c + blocks)))
    ELSE u

\* ReallocMoveDown without the memmove.
ReallocMoveDown_no_memmove(u, c, ptr, curSize, total, blocks, rcase) ==
  Do(umm_disconnect_from_free_list(u, UMM_PBLOCK(u, c)), LAMBDA u1 :
  Do(umm_assimilate_down(u1, c, 0), LAMBDA d :
  [u |-> ReallocSplitAndFree(d.u, d.c, total, blocks),
   ptr |-> DataPtr(d.u, d.c), rcase |-> rcase, diverged |-> FALSE]))

\* Cases 4 and 5 from the disconnect of the previous block on: merge down,
\* move the data, then split off what is left over.
ReallocMoveDown(u, c, ptr, curSize, total, blocks, rcase) ==
  Do(umm_disconnect_from_free_list(u, UMM_PBLOCK(u, c)), LAMBDA u1 :
  Do(umm_assimilate_down(u1, c, 0), LAMBDA d :
  Do([d.u EXCEPT !.mem = MemMove(@, OffDATA(d.c), ptr - u.pheap, curSize)], LAMBDA u2 :
  [u |-> ReallocSplitAndFree(u2, d.c, total, blocks),
   ptr |-> DataPtr(u2, d.c), rcase |-> rcase, diverged |-> FALSE])))

\* ReallocMove without the memcpy.
ReallocMove_no_memcpy(u, fit, ptr, size, curSize) ==
  Do(umm_malloc_core(u, fit, size), LAMBDA m :
  IF m.ptr # NULL
    THEN [u |-> umm_free_core(m.u, ptr), ptr |-> m.ptr, rcase |-> 6, diverged |-> FALSE]
    ELSE [u |-> m.u, ptr |-> NULL, rcase |-> 6, diverged |-> m.diverged])

\* ReallocMove that releases the old block also when the allocation fails.
ReallocMove_frees_on_failure(u, fit, ptr, size, curSize) ==
  Do(umm_malloc_core(u, fit, size), LAMBDA m :
  IF m.ptr # NULL
    THEN Do([m.u EXCEPT !.mem = MemMove(@, m.ptr - u.pheap, ptr - u.pheap, curSize)], LAMBDA u1 :
         [u |-> umm_free_core(u1, ptr), ptr |-> m.ptr, rcase |-> 6, diverged |-> FALSE])
    ELSE [u |-> umm_free_core(m.u, ptr), ptr |-> NULL, rcase |-> 6, diverged |-> m.diverged])

\* Case 6: a new block, the data copied, the old block released.
ReallocMove(u, fit, ptr, size, curSize) ==
  Do(umm_malloc_core(u, fit, size), LAMBDA m :
  IF m.ptr # NULL
    THEN Do([m.u EXCEPT !.mem = MemMove(@, m.ptr - u.pheap, ptr - u.pheap, curSize)], LAMBDA u1 :
         [u |-> umm_free_core(u1, ptr), ptr |-> m.ptr, rcase |-> 6, diverged |-> FALSE])
    ELSE [u |-> m.u, ptr |-> NULL, rcase |-> 6, diverged |-> m.diverged])

\* ReallocLocked without the test for the exact fit (case 2).
ReallocLocked_no_exact_fit(u, fit, ptr, size, blocks, c, blockSize, curSize) ==
  Do(IF FreeBit(UMM_NBLOCK(u, UMM_NBLOCK(u, c))) # 0
       THEN U16(BlockNo(UMM_NBLOCK(u, UMM_NBLOCK(u, c))) - UMM_NBLOCK(u, c))
       ELSE 0, LAMBDA nextBlockSize :
  Do(IF FreeBit(UMM_NBLOCK(u, UMM_PBLOCK(u, c))) # 0
       THEN U16(c - UMM_PBLOCK(u, c))
       ELSE 0, LAMBDA prevBlockSize :
  IF blockSize >= blocks
    THEN [u |-> ReallocSplitAndFree(u, c, blockSize, blocks),
          ptr |-> ptr, rcase |-> 1, diverged |-> FALSE]
  ELSE IF 0 = prevBlockSize /\ (blockSize + nextBlockSize) >= blocks
    THEN Do(umm_assimilate_up(u, c), LAMBDA u1 :
         [u |-> ReallocSplitAndFree(u1, c, blockSize + nextBlockSize, blocks),
          ptr |-> ptr, rcase |-> 3, diverged |-> FALSE])
  ELSE IF (prevBlockSize + blockSize) >= blocks
    THEN ReallocMoveDown(u, c, ptr, curSize, blockSize + prevBlockSize, blocks, 4)
  ELSE IF (prevBlockSize + blockSize + nextBlockSize) >= blocks
    THEN Do(umm_assimilate_up(u, c), LAMBDA u1 :
         ReallocMoveDown(u1, c, ptr, curSize,
                         blockSize + prevBlockSize + nextBlockSize, blocks, 5))
  ELSE ReallocMove(u, fit, ptr, size, curSize)))

\* What umm_realloc does between UMM_CRITICAL_ENTRY and UMM_CRITICAL_EXIT,
\* with the locals blocks, c, blockSize and curSize as they were computed
\* before the entry.  Returns [u, ptr, rcase, diverged].
ReallocLocked(u, fit, ptr, size, blocks, c, blockSize, curSize) ==
  Do(IF FreeBit(UMM_NBLOCK(u, UMM_NBLOCK(u, c))) # 0
       THEN U16(BlockNo(UMM_NBLOCK(u, UMM_NBLOCK(u, c))) - UMM_NBLOCK(u, c))
       ELSE 0, LAMBDA nextBlockSize :
  Do(IF FreeBit(UMM_NBLOCK(u, UMM_PBLOCK(u, c))) # 0
       THEN U16(c - UMM_PBLOCK(u, c))
       ELSE 0, LAMBDA prevBlockSize :
  IF blockSize >= blocks
    THEN [u |-> ReallocSplitAndFree(u, c, blockSize, blocks),
          ptr |-> ptr, rcase |-> 1, diverged |-> FALSE]
  ELSE IF (blockSize + nextBlockSize) = blocks
    THEN Do(umm_assimilate_up(u, c), LAMBDA u1 :
         [u |-> ReallocSplitAndFree(u1, c, blockSize + nextBlockSize, blocks),
          ptr |-> ptr, rcase |-> 2, diverged |-> FALSE])
  ELSE IF 0 = prevBlockSize /\ (blockSize + nextBlockSize) >= blocks
    THEN Do(umm_assimilate_up(u, c), LAMBDA u1 :
         [u |-> ReallocSplitAndFree(u1, c, blockSize + nextBlockSize, blocks),
          ptr |-> ptr, rcase |-> 3, diverged |-> FALSE])
  ELSE IF (prevBlockSize + blockSize) >= blocks
    THEN ReallocMoveDown(u, c, ptr, curSize, blockSize + prevBlockSize, blocks, 4)
  ELSE IF (prevBlockSize + blockSize + nextBlockSize) >= blocks
    THEN Do(umm_assimilate_up(u, c), LAMBDA u1 :
         ReallocMoveDown(u1, c, ptr, curSize,
                         blockSize + prevBlockSize + nextBlockSize, blocks, 5))
  ELSE ReallocMove(u, fit, ptr, size, curSize)))

\* ReallocCases that always takes a new block, copies and releases the old.
ReallocCases_always_move(u, fit, ptr, size) ==
  ReallocMove(u, fit, ptr, size,
              Min((U16(UMM_NBLOCK(u, BlockOf(u, ptr)) - BlockOf(u, ptr)) * UMM_BLOCKSIZE) - SizeofHeader,
                  (umm_blocks(size) * UMM_BLOCKSIZE) - SizeofHeader))

\* The six cases, for ptr # NULL and size # 0: the locals, then the part
\* inside the critical section.
ReallocCases(u, fit, ptr, size) ==
  Do(umm_blocks(size), LAMBDA blocks :
  Do(BlockOf(u, ptr), LAMBDA c :
  Do(U16(UMM_NBLOCK(u, c) - c), LAMBDA blockSize :
  Do((blockSize * UMM_BLOCKSIZE) - SizeofHeader, LAMBDA curSize :
  ReallocLocked(u, fit, ptr, size, blocks, c, blockSize, curSize)))))

\* umm_realloc that returns NULL for size 0 without releasing the block.
umm_realloc_zero_keeps_block(u, fit, ptr, size) ==
  IF NULL = ptr
    THEN Do(umm_malloc(u, fit, size), LAMBDA m :
         [u |-> m.u, ptr |-> m.ptr, rcase |-> 0, diverged |-> m.diverged])
  ELSE IF 0 = size
    THEN [u |-> u, ptr |-> NULL, rcase |-> 0, diverged |-> FALSE]
  ELSE ReallocCases(u, fit, ptr, size)

umm_realloc(u, fit, ptr, size) ==
  IF NULL = ptr
    THEN Do(umm_malloc(u, fit, size), LAMBDA m :
         [u |-> m.u, ptr |-> m.ptr, rcase |-> 0, diverged |-> m.diverged])
  ELSE IF 0 = size
    THEN [u |-> umm_free(u, ptr), ptr |-> NULL, rcase |-> 0, diverged |-> FALSE]
  ELSE ReallocCases(u, fit, ptr, size)

(* ------------------------------------------------------------------ *)
(* umm_calloc                                                          *)
(* ------------------------------------------------------------------ *)

umm_calloc(u, fit, num, item_size) ==
  Do(SizeMul(item_size, num), LAMBDA size :
  Do(umm_malloc(u, fit, size), LAMBDA m :
  IF m.ptr # NULL
    THEN [m EXCEPT !.u.mem = MemSet(@, m.ptr - u.pheap, 0, size)]
    ELSE m))

(* ------------------------------------------------------------------ *)
(* umm_info, umm_integrity_check, umm_poison_check                     *)
(* ------------------------------------------------------------------ *)

\* (uint32_t)(sqrtf(x)) for the sums of squares of the model.
Isqrt(x) == IF x <= 0 THEN 0 ELSE CHOOSE r \in 0 .. x : r * r <= x /\ (r + 1) * (r + 1) > x

\* compute_usage_metric that never finds a free block.
compute_usage_metric_none_free(u) ==
  [u EXCEPT !.info.usage_metric = 0 - 1]

compute_usage_metric(u) ==
  IF 0 = u.info.freeBlocks
    THEN [u EXCEPT !.info.usage_metric = 0 - 1]
    ELSE [u EXCEPT !.info.usage_metric = (u.info.usedBlocks * 100) \div u.info.freeBlocks]

compute_fragmentation_metric(u) ==
  IF 0 = u.info.freeBlocks
    THEN [u EXCEPT !.info.fragmentation_metric = 0]
    ELSE [u EXCEPT !.info.fragmentation_metric =
                     100 - ((Isqrt(u.info.freeBlocksSquared) * 100) \div u.info.freeBlocks)]

\* The counting of one free block of curBlocks blocks, and of a used one.
InfoCountFree(info, curBlocks) ==
  [info EXCEPT !.totalEntries = @ + 1,
               !.totalBlocks = @ + curBlocks,
               !.freeEntries = @ + 1,
               !.freeBlocks = @ + curBlocks,
               !.freeBlocksSquared = @ + (curBlocks * curBlocks),
               !.maxFreeContiguousBlocks = IF @ < curBlocks THEN curBlocks ELSE @]

InfoCountUsed(info, curBlocks) ==
  [info EXCEPT !.totalEntries = @ + 1,
               !.totalBlocks = @ + curBlocks,
               !.usedEntries = @ + 1,
               !.usedBlocks = @ + curBlocks]

\* The loop of umm_info without the test for ptr.
RECURSIVE InfoWalk_no_match(_, _, _, _)
InfoWalk_no_match(u, ptr, blockNo, info) ==
  IF BlockNo(UMM_NBLOCK(u, blockNo)) = 0
    THEN [u |-> compute_fragmentation_metric(compute_usage_metric([u EXCEPT !.info = info])),
          ret |-> NULL, path |-> "end"]
    ELSE Do(BlockNo(UMM_NBLOCK(u, blockNo)) - blockNo, LAMBDA curBlocks :
         IF FreeBit(UMM_NBLOCK(u, blockNo)) # 0
           THEN InfoWalk_no_match(u, ptr, BlockNo(UMM_NBLOCK(u, blockNo)),
                                  InfoCountFree(info, curBlocks))
           ELSE InfoWalk_no_match(u, ptr, BlockNo(UMM_NBLOCK(u, blockNo)),
                                  InfoCountUsed(info, curBlocks)))

\* The while loop of umm_info from block blockNo on, with ummHeapInfo as
\* counted so far, and what follows the loop.  Returns [u, ret, path]: path
\* is "match" for the return inside the loop.
RECURSIVE InfoWalk(_, _, _, _)
InfoWalk(u, ptr, blockNo, info) ==
  IF BlockNo(UMM_NBLOCK(u, blockNo)) = 0
    THEN [u |-> compute_fragmentation_metric(compute_usage_metric([u EXCEPT !.info = info])),
          ret |-> NULL, path |-> "end"]
    ELSE Do(BlockNo(UMM_NBLOCK(u, blockNo)) - blockNo, LAMBDA curBlocks :
         IF FreeBit(UMM_NBLOCK(u, blockNo)) # 0
           THEN IF ptr = u.pheap + OffNBLOCK(blockNo)
                  THEN [u |-> [u EXCEPT !.info = InfoCountFree(info, curBlocks)],
                        ret |-> ptr, path |-> "match"]
                  ELSE InfoWalk(u, ptr, BlockNo(UMM_NBLOCK(u, blockNo)),
                                InfoCountFree(info, curBlocks))
           ELSE InfoWalk(u, ptr, BlockNo(UMM_NBLOCK(u, blockNo)),
                         InfoCountUsed(info, curBlocks)))

\* What umm_info does between UMM_CRITICAL_ENTRY and the exit it reaches.
umm_info(u, ptr) == InfoWalk(u, ptr, BlockNo(UMM_NBLOCK(u, 0)), ZeroInfo)

\* The build with UMM_INLINE_METRICS (inline) keeps freeBlocks and
\* freeBlocksSquared up to date in every operation; the build without
\* has umm_info count them when they are asked for.  Each returns [u, ret].
umm_free_heap_size(u, inline) ==
  Do(IF inline THEN u ELSE umm_info(u, NULL).u, LAMBDA u1 :
  [u |-> u1, ret |-> u1.info.freeBlocks * UMM_BLOCKSIZE])

umm_usage_metric(u, inline) ==
  Do(IF inline THEN compute_usage_metric(u) ELSE umm_info(u, NULL).u, LAMBDA u1 :
  [u |-> u1, ret |-> u1.info.usage_metric])

umm_fragmentation_metric(u, inline) ==
  Do(IF inline THEN compute_fragmentation_metric(u) ELSE umm_info(u, NULL).u, LAMBDA u1 :
  [u |-> u1, ret |-> u1.info.fragmentation_metric])

\* The first loop of umm_integrity_check: along the free list from prev,
\* marking prev_block of every node.  Returns [u, ok, path]: path names
\* the goto clean taken, "end" for none.
RECURSIVE IntegrityFreeWalk(_, _)
IntegrityFreeWalk(u, prev) ==
  Do(UMM_NFREE(u, prev), LAMBDA cur :
  IF cur >= u.numblocks
    THEN [u |-> u, ok |-> FALSE, path |-> "next_free_too_large"]
  ELSE IF cur = 0
    THEN [u |-> u, ok |-> TRUE, path |-> "end"]
  ELSE IF UMM_PFREE(u, cur) # prev
    THEN [u |-> u, ok |-> FALSE, path |-> "free_links"]
  ELSE Do(SetPBLOCK(u, cur, OrMask(UMM_PBLOCK(u, cur), UMM_FREELIST_MASK)), LAMBDA u1 :
       IntegrityFreeWalk(u1, cur)))

\* The second loop comparing the unmarked value without storing it.
RECURSIVE IntegrityBlockWalk_keeps_marks(_, _)
IntegrityBlockWalk_keeps_marks(u, prev) ==
  Do(BlockNo(UMM_NBLOCK(u, prev)), LAMBDA cur :
  IF cur >= u.numblocks
    THEN [u |-> u, ok |-> FALSE, path |-> "next_block_too_large"]
  ELSE IF cur = 0
    THEN [u |-> u, ok |-> TRUE, path |-> "end"]
  ELSE IF FreeBit(UMM_NBLOCK(u, cur)) # FreeBit(UMM_PBLOCK(u, cur))
    THEN [u |-> u, ok |-> FALSE, path |-> "mask"]
  ELSE IF cur <= prev
    THEN [u |-> u, ok |-> FALSE, path |-> "not_sequential"]
  ELSE IF BlockNo(UMM_PBLOCK(u, cur)) # prev
    THEN [u |-> u, ok |-> FALSE, path |-> "block_links"]
  ELSE IntegrityBlockWalk_keeps_marks(u, cur))

\* The second loop: along the chain from prev, unmarking.
RECURSIVE IntegrityBlockWalk(_, _)
IntegrityBlockWalk(u, prev) ==
  Do(BlockNo(UMM_NBLOCK(u, prev)), LAMBDA cur :
  IF cur >= u.numblocks
    THEN [u |-> u, ok |-> FALSE, path |-> "next_block_too_large"]
  ELSE IF cur = 0
    THEN [u |-> u, ok |-> TRUE, path |-> "end"]
  ELSE IF FreeBit(UMM_NBLOCK(u, cur)) # FreeBit(UMM_PBLOCK(u, cur))
    THEN [u |-> u, ok |-> FALSE, path |-> "mask"]
  ELSE IF cur <= prev
    THEN [u |-> u, ok |-> FALSE, path |-> "not_sequential"]
  ELSE Do(SetPBLOCK(u, cur, BlockNo(UMM_PBLOCK(u, cur))), LAMBDA u1 :
       IF UMM_PBLOCK(u1, cur) # prev
         THEN [u |-> u1, ok |-> FALSE, path |-> "block_links"]
         ELSE IntegrityBlockWalk(u1, cur)))

\* What umm_integrity_check does between UMM_CRITICAL_ENTRY and clean.
umm_integrity_check(u) ==
  Do(IntegrityFreeWalk(u, 0), LAMBDA w :
  IF w.ok THEN IntegrityBlockWalk(w.u, 0) ELSE w)

\* The used blocks umm_poison_check hands to check_poison_block.
RECURSIVE PoisonWalk(_, _)
PoisonWalk(u, cur) ==
  IF BlockNo(UMM_NBLOCK(u, cur)) = 0
    THEN {}
    ELSE (IF FreeBit(UMM_NBLOCK(u, cur)) = 0 THEN {cur} ELSE {})
           \cup PoisonWalk(u, BlockNo(UMM_NBLOCK(u, cur)))

\* The results umm_poison_check can give.  The blocks of the model are
\* handed out by umm_malloc, not by umm_poison_malloc: what
\* check_poison_block finds where the poison would be is not decided by
\* the allocator.
umm_poison_check(u) ==
  IF PoisonWalk(u, BlockNo(UMM_NBLOCK(u, 0))) = {} THEN {TRUE} ELSE {TRUE, FALSE}

(* ------------------------------------------------------------------ *)
(* State                                                               *)
(* ------------------------------------------------------------------ *)

VARIABLES
  heap,              \* the bytes of the region UMM_HEAP points to
  umm_heap_current,  \* struct umm_heap_config: pheap, heap_size, numblocks
  ummHeapInfo,       \* the inline metric accumulators
  fit,               \* the build's selection policy
  live,              \* the pointers handed out and not yet given back
  last,              \* the call that completed last, with its result
  calls,             \* per caller: the public operation it is in, and where
  lock,              \* the caller inside the critical section, or Unlocked
  corrupted,         \* a caller has written outside the regions it owns
  history,           \* the calls of a scenario so far, with their results
  callbacks          \* how often UMM_HEAP_CORRUPTION_CB has been invoked

\* What the step-by-step specification CritSpec adds to the state.
cvars == <<calls, lock, corrupted>>

\* What the scenario specifications add to the state.
svars == <<history, callbacks>>

vars == <<heap, umm_heap_current, ummHeapInfo, fit, live, last, cvars, svars>>

\* The callers of CritSpec, and the calls they make at most, all together.
Callers == {1, 2}

MaxCalls == 3

Unlocked == 0

\* A caller that is in no call and has made none.
IdleCall ==
  [op |-> "none", fn |-> "none", ptr |-> NULL, size |-> 0, at |-> "idle",
   blockSize |-> 0, ret |-> NULL, path |-> "none", enters |-> 0, exits |-> 0,
   outside |-> FALSE, overtaken |-> FALSE, own |-> {}, n |-> 0]

\* The allocator's globals as one value, and back.
Heap ==
  [mem |-> heap,
   pheap |-> umm_heap_current.pheap,
   heap_size |-> umm_heap_current.heap_size,
   numblocks |-> umm_heap_current.numblocks,
   info |-> ummHeapInfo]

Store(u) ==
  /\ heap' = u.mem
  /\ umm_heap_current' = [pheap |-> u.pheap, heap_size |-> u.heap_size, numblocks |-> u.numblocks]
  /\ ummHeapInfo' = u.info

Call(op, ptr, size, num, ret, rcase, diverged) ==
  [op |-> op, ptr |-> ptr, size |-> size, num |-> num, ret |-> ret,
   rcase |-> rcase, diverged |-> diverged]

NoCall == Call("none", NULL, 0, 0, NULL, 0, FALSE)

\* A run of the model is a sequence of calls of which the last one may be
\* observed: last then holds that call's arguments and result, and the run
\* ends there.  The calls before it leave last at NoCall.
Observe(call) == \E observed \in BOOLEAN : last' = IF observed THEN call ELSE NoCall

\* The byte a caller writes at offset j of a region.
Pattern(j) == 1 + (j % 255)

\* The usable bytes of the used block whose body ptr points to.
UsableBytes(u, ptr) ==
  (U16(UMM_NBLOCK(u, BlockOf(u, ptr)) - BlockOf(u, ptr)) * UMM_BLOCKSIZE) - SizeofHeader

\* The blocks of the chain from block b on, the tail sentinel left out.
RECURSIVE ChainFrom(_, _, _)
ChainFrom(u, b, n) ==
  IF n = 0 \/ b >= u.numblocks
    THEN {}
    ELSE LET nb == BlockNo(UMM_NBLOCK(u, b))
         IN  IF nb = 0 THEN {} ELSE {b} \cup ChainFrom(u, nb, n - 1)

Chain(u) == ChainFrom(u, 0, u.numblocks)

IsFree(u, b) == FreeBit(UMM_NBLOCK(u, b)) # 0

(***************************************************************************)
(* Indeterminate bytes.  The allocator gives no meaning to a byte that is  *)
(* neither in the header of a chain block, nor in the free links of a free *)
(* chain block, nor in the body of a used block: what is left there by     *)
(* earlier calls (absorbed headers, released bodies) is never read again   *)
(* before it is written.  The same holds, for the caller, of the bytes of  *)
(* a region it has just been given and has not written.  The model keeps   *)
(* the one value Indeterminate for every such byte after each call, so     *)
(* that two heaps that differ only in them are one state.                  *)
(***************************************************************************)
Indeterminate == 0 - 1

\* The offsets of the bytes that have a meaning: block 0, the tail sentinel
\* and what follows it, every chain block's header, a free block's links
\* and a used block's body.
Meaningful(u) ==
  LET first(c) == c * UMM_BLOCKSIZE
      end(c) == IF IsFree(u, c)
                  THEN first(c) + SizeofHeader + SizeofPtr
                  ELSE BlockNo(UMM_NBLOCK(u, c)) * UMM_BLOCKSIZE
  IN  (0 .. UMM_BLOCKSIZE - 1)
        \cup {a \in DOMAIN u.mem : a >= UMM_BLOCK_LAST(u) * UMM_BLOCKSIZE}
        \cup UNION {first(c) .. end(c) - 1 : c \in Chain(u)}

\* u with the bytes of fresh, and every byte without a meaning, indeterminate.
Scrub(u, fresh) ==
  Do(Meaningful(u) \ fresh, LAMBDA keep :
  [u EXCEPT !.mem = [a \in DOMAIN u.mem |-> IF a \in keep THEN u.mem[a] ELSE Indeterminate]])

\* The offsets of bytes from..to-1 of the region at ptr.
RegionBytes(u, ptr, from, to) == {(ptr - u.pheap) + j : j \in from .. to - 1}

(* ------------------------------------------------------------------ *)
(* Actions: one per public operation                                   *)
(* ------------------------------------------------------------------ *)

\* The live regions that hold at least one byte their owner can rely on.
DataRegions(u, ptrs) ==
  {p \in ptrs : \E a \in RegionBytes(u, p, 0, UsableBytes(u, p)) : u.mem[a] # Indeterminate}

Init ==
  \E size \in HeapSizes, f \in FitPolicies :
    \E u \in {Scrub(umm_init_heap(UMM_MALLOC_CFG_HEAP_ADDR, size), {})} :
        /\ heap = u.mem
        /\ umm_heap_current = [pheap |-> u.pheap, heap_size |-> u.heap_size, numblocks |-> u.numblocks]
        /\ ummHeapInfo = u.info
        /\ fit = f
        /\ live = {}
        /\ last = NoCall
        /\ calls = [t \in Callers |-> IdleCall]
        /\ lock = Unlocked
        /\ corrupted = FALSE
        /\ history = <<>>
        /\ callbacks = 0

InitHeap ==
  /\ last = NoCall
  /\ \E size \in HeapSizes :
       \E u \in {umm_init_heap(UMM_MALLOC_CFG_HEAP_ADDR, size)} :
         /\ Store(Scrub(u, {}))
         /\ live' = {}
         /\ Observe(Call("umm_init_heap", UMM_MALLOC_CFG_HEAP_ADDR, size, 0, NULL, 0, FALSE))
         /\ UNCHANGED <<fit, cvars, svars>>

Malloc ==
  /\ last = NoCall
  /\ \E size \in AllocSizes :
       \E r \in {umm_malloc(Heap, fit, size)} :
         LET fresh == IF r.ptr # NULL THEN RegionBytes(r.u, r.ptr, 0, UsableBytes(r.u, r.ptr)) ELSE {}
         IN  /\ Store(Scrub(r.u, fresh))
             /\ live' = IF r.ptr # NULL THEN live \cup {r.ptr} ELSE live
             /\ Observe(Call("umm_malloc", NULL, size, 0, r.ptr, 0, r.diverged))
             /\ UNCHANGED <<fit, cvars, svars>>

Free ==
  /\ last = NoCall
  /\ \E ptr \in live \cup {NULL} :
       \E u \in {umm_free(Heap, ptr)} :
         /\ Store(Scrub(u, {}))
         /\ live' = live \ {ptr}
         /\ Observe(Call("umm_free", ptr, 0, 0, NULL, 0, FALSE))
         /\ UNCHANGED <<fit, cvars, svars>>

Realloc ==
  /\ last = NoCall
  /\ \E ptr \in live \cup {NULL}, size \in AllocSizes :
       \E r \in {umm_realloc(Heap, fit, ptr, size)} :
         LET had == IF ptr # NULL THEN UsableBytes(Heap, ptr) ELSE 0
             fresh == IF r.ptr # NULL THEN RegionBytes(r.u, r.ptr, had, UsableBytes(r.u, r.ptr)) ELSE {}
         IN  /\ Store(Scrub(r.u, fresh))
             /\ live' = IF size = 0 \/ r.ptr # NULL
                          THEN (live \ {ptr}) \cup ({r.ptr} \ {NULL})
                          ELSE live
             /\ Observe(Call("umm_realloc", ptr, size, 0, r.ptr, r.rcase, r.diverged))
             /\ UNCHANGED <<fit, cvars, svars>>

\* The caller keeps data in one region at a time: it asks for zeroed memory
\* only while no live region holds data.
Calloc ==
  /\ last = NoCall
  /\ DataRegions(Heap, live) = {}
  /\ \E num \in CallocNums, item_size \in CallocItemSizes :
       \E r \in {umm_calloc(Heap, fit, num, item_size)} :
         LET fresh == IF r.ptr # NULL
                        THEN RegionBytes(r.u, r.ptr, SizeMul(item_size, num), UsableBytes(r.u, r.ptr))
                        ELSE {}
         IN  /\ Store(Scrub(r.u, fresh))
             /\ live' = IF r.ptr # NULL THEN live \cup {r.ptr} ELSE live
             /\ Observe(Call("umm_calloc", NULL, item_size, num, r.ptr, 0, r.diverged))
             /\ UNCHANGED <<fit, cvars, svars>>

\* The owner of a live pointer writes all of the block's usable bytes; it
\* does so only while no other live region holds data.
UserWrite ==
  /\ last = NoCall
  /\ \E ptr \in live :
       LET off == ptr - umm_heap_current.pheap
           n == UsableBytes(Heap, ptr)
       IN  /\ DataRegions(Heap, live) \subseteq {ptr}
           /\ heap' = [a \in DOMAIN heap |-> IF a >= off /\ a < off + n THEN Pattern(a - off) ELSE heap[a]]
           /\ UNCHANGED <<umm_heap_current, ummHeapInfo, fit, live, last, cvars, svars>>

Next ==
  \/ InitHeap
  \/ Malloc
  \/ Free
  \/ Realloc
  \/ Calloc
  \/ UserWrite

Spec == Init /\ [][Next]_vars

(* ------------------------------------------------------------------ *)
(* Step by step: the public operations and the critical section        *)
(* ------------------------------------------------------------------ *)

(***************************************************************************)
(* CritSpec follows each public operation statement by statement as far as *)
(* the critical section goes: the tests before UMM_CRITICAL_ENTRY, the     *)
(* entry, what is done inside, the exit and the return.  UMM_CRITICAL_ENTRY *)
(* and UMM_CRITICAL_EXIT are the host's (umm_malloc_cfg.h); they are taken *)
(* to be the acquire and release of one lock.  Callers take turns step by  *)
(* step.  The heap is initialised before the first call, so that           *)
(* UMM_CHECK_INITIALIZED has nothing to do.                                *)
(***************************************************************************)

\* The sizes the callers ask for: none, one block, two blocks.
CritSizes == {0, SizeofBody, SizeofBody + 1}

\* What umm_info is asked to look for: nothing, the address of the first
\* block after block 0, or that of the block at the head of the free list.
InfoProbes(u) == {NULL} \cup {u.pheap + OffNBLOCK(b) : b \in {1, UMM_NFREE(u, 0)}}

\* The calls begun so far.
CallsMade == calls[1].n + calls[2].n

\* The calls caller t can begin.  A caller passes only pointers it owns;
\* once the heap is known to be damaged, integrity is all that is asked.
Requests(t) ==
  IF corrupted
    THEN {[op |-> "umm_integrity_check", ptr |-> NULL, size |-> 0]}
    ELSE {[op |-> "umm_malloc", ptr |-> NULL, size |-> sz] : sz \in CritSizes}
           \cup {[op |-> "umm_free", ptr |-> p, size |-> 0] : p \in calls[t].own \cup {NULL}}
           \cup {[op |-> "umm_realloc", ptr |-> p, size |-> sz] :
                   p \in calls[t].own \cup {NULL}, sz \in CritSizes}
           \cup {[op |-> "umm_info", ptr |-> p, size |-> 0] : p \in InfoProbes(Heap)}
           \cup {[op |-> "umm_integrity_check", ptr |-> NULL, size |-> 0],
                 [op |-> "umm_poison_check", ptr |-> NULL, size |-> 0]}

\* Caller t's record becomes c; a caller that has read its block's size and
\* waits to enter notes whether t changes the heap meanwhile.
SetCall(t, c, changesHeap) ==
  calls' = [o \in Callers |->
              IF o = t THEN c
              ELSE IF changesHeap /\ calls[o].at = "ready"
                THEN [calls[o] EXCEPT !.overtaken = TRUE]
                ELSE calls[o]]

\* c, having returned ret along path.
Returned(c, ret, path) ==
  [c EXCEPT !.at = "returned", !.ret = ret, !.path = path,
            !.ptr = NULL, !.size = 0, !.blockSize = 0]

\* c after UMM_CRITICAL_ENTRY, and after UMM_CRITICAL_EXIT.
Entered(c) == [c EXCEPT !.at = "inside", !.enters = @ + 1]

Exited(c) == [c EXCEPT !.exits = @ + 1]

CritInit ==
  \E size \in HeapSizes, f \in FitPolicies :
    \E u \in {umm_init_heap(UMM_MALLOC_CFG_HEAP_ADDR, size)} :
        /\ heap = u.mem
        /\ umm_heap_current = [pheap |-> u.pheap, heap_size |-> u.heap_size, numblocks |-> u.numblocks]
        /\ ummHeapInfo = u.info
        /\ fit = f
        /\ live = {}
        /\ last = NoCall
        /\ calls = [t \in Callers |-> IdleCall]
        /\ lock = Unlocked
        /\ corrupted = FALSE
        /\ history = <<>>
        /\ callbacks = 0

\* A caller calls a public operation.
Begin(t) ==
  /\ calls[t].at \in {"idle", "returned"}
  /\ CallsMade < MaxCalls
  /\ \E r \in Requests(t) :
       SetCall(t, [calls[t] EXCEPT !.op = r.op, !.fn = r.op, !.ptr = r.ptr, !.size = r.size,
                                   !.at = "called", !.blockSize = 0, !.ret = NULL,
                                   !.path = "none", !.enters = 0, !.exits = 0,
                                   !.outside = FALSE, !.overtaken = FALSE, !.n = @ + 1], FALSE)
  /\ UNCHANGED <<heap, umm_heap_current, ummHeapInfo, fit, live, last, lock, corrupted, svars>>

\* umm_malloc: if (0 == size) return ptr;
MallocZero(t) ==
  /\ calls[t].fn = "umm_malloc" /\ calls[t].at = "called"
  /\ 0 = calls[t].size
  /\ SetCall(t, Returned(calls[t], NULL, "zero"), FALSE)
  /\ UNCHANGED <<heap, umm_heap_current, ummHeapInfo, fit, live, last, lock, corrupted, svars>>

\* umm_malloc: UMM_CRITICAL_ENTRY(id_malloc)
MallocEnter(t) ==
  /\ calls[t].fn = "umm_malloc" /\ calls[t].at = "called"
  /\ 0 # calls[t].size
  /\ lock = Unlocked
  /\ lock' = t
  /\ SetCall(t, Entered(calls[t]), FALSE)
  /\ UNCHANGED <<heap, umm_heap_current, ummHeapInfo, fit, live, last, corrupted, svars>>

\* umm_malloc: ptr = umm_malloc_core(size)
MallocCore(t) ==
  /\ calls[t].fn = "umm_malloc" /\ calls[t].at = "inside"
  /\ \E r \in {umm_malloc_core(Heap, fit, calls[t].size)} :
       /\ Store(r.u)
       /\ live' = live \cup ({r.ptr} \ {NULL})
       /\ SetCall(t, [calls[t] EXCEPT !.at = "leaving", !.ret = r.ptr,
                                      !.outside = @ \/ lock # t,
                                      !.own = @ \cup ({r.ptr} \ {NULL})], TRUE)
  /\ UNCHANGED <<fit, last, lock, corrupted, svars>>

\* umm_malloc: UMM_CRITICAL_EXIT(id_malloc); return ptr;
MallocExit(t) ==
  /\ calls[t].fn = "umm_malloc" /\ calls[t].at = "leaving"
  /\ lock' = Unlocked
  /\ SetCall(t, Returned(Exited(calls[t]), calls[t].ret, "normal"), FALSE)
  /\ UNCHANGED <<heap, umm_heap_current, ummHeapInfo, fit, live, last, corrupted, svars>>

\* umm_free: if (0 == ptr) return;
FreeNull(t) ==
  /\ calls[t].fn = "umm_free" /\ calls[t].at = "called"
  /\ 0 = calls[t].ptr
  /\ SetCall(t, Returned(calls[t], NULL, "null"), FALSE)
  /\ UNCHANGED <<heap, umm_heap_current, ummHeapInfo, fit, live, last, lock, corrupted, svars>>

\* umm_free: UMM_CRITICAL_ENTRY(id_free)
FreeEnter(t) ==
  /\ calls[t].fn = "umm_free" /\ calls[t].at = "called"
  /\ 0 # calls[t].ptr
  /\ lock = Unlocked
  /\ lock' = t
  /\ SetCall(t, Entered(calls[t]), FALSE)
  /\ UNCHANGED <<heap, umm_heap_current, ummHeapInfo, fit, live, last, corrupted, svars>>

\* umm_free: umm_free_core(ptr)
FreeCore(t) ==
  /\ calls[t].fn = "umm_free" /\ calls[t].at = "inside"
  /\ \E u \in {umm_free_core(Heap, calls[t].ptr)} :
       /\ Store(u)
       /\ live' = live \ {calls[t].ptr}
       /\ SetCall(t, [calls[t] EXCEPT !.at = "leaving", !.ret = NULL,
                                      !.outside = @ \/ lock # t,
                                      !.own = @ \ {calls[t].ptr}], TRUE)
  /\ UNCHANGED <<fit, last, lock, corrupted, svars>>

\* umm_free: UMM_CRITICAL_EXIT(id_free); and the return, which for a
\* umm_realloc to size 0 is that of umm_realloc: return (void *)NULL.
FreeExit(t) ==
  /\ calls[t].fn = "umm_free" /\ calls[t].at = "leaving"
  /\ lock' = Unlocked
  /\ SetCall(t, Returned(Exited(calls[t]), NULL, "normal"), FALSE)
  /\ UNCHANGED <<heap, umm_heap_current, ummHeapInfo, fit, live, last, corrupted, svars>>

\* umm_realloc: if (NULL == ptr) return umm_malloc(size);
ReallocNull(t) ==
  /\ calls[t].fn = "umm_realloc" /\ calls[t].at = "called"
  /\ NULL = calls[t].ptr
  /\ SetCall(t, [calls[t] EXCEPT !.fn = "umm_malloc"], FALSE)
  /\ UNCHANGED <<heap, umm_heap_current, ummHeapInfo, fit, live, last, lock, corrupted, svars>>

\* umm_realloc: if (0 == size) { umm_free(ptr); return NULL; }
ReallocZero(t) ==
  /\ calls[t].fn = "umm_realloc" /\ calls[t].at = "called"
  /\ NULL # calls[t].ptr
  /\ 0 = calls[t].size
  /\ SetCall(t, [calls[t] EXCEPT !.fn = "umm_free"], FALSE)
  /\ UNCHANGED <<heap, umm_heap_current, ummHeapInfo, fit, live, last, lock, corrupted, svars>>

\* A read that takes the size of the block before it instead.
ReallocRead_of_previous(t) ==
  /\ calls[t].fn = "umm_realloc" /\ calls[t].at = "called"
  /\ NULL # calls[t].ptr
  /\ 0 # calls[t].size
  /\ \E c \in {BlockOf(Heap, calls[t].ptr)} :
       SetCall(t, [calls[t] EXCEPT !.at = "ready",
                                   !.blockSize = U16(c - BlockNo(UMM_PBLOCK(Heap, c))),
                                   !.outside = @ \/ lock # t], FALSE)
  /\ UNCHANGED <<heap, umm_heap_current, ummHeapInfo, fit, live, last, lock, corrupted, svars>>

\* umm_realloc: blocks = umm_blocks(size); c = ...;
\* blockSize = (UMM_NBLOCK(c) - c); curSize = ...;
\* all of it ahead of UMM_CRITICAL_ENTRY.  blocks, c and curSize follow from
\* the arguments and blockSize; blockSize is read from the heap.
ReallocRead(t) ==
  /\ calls[t].fn = "umm_realloc" /\ calls[t].at = "called"
  /\ NULL # calls[t].ptr
  /\ 0 # calls[t].size
  /\ \E c \in {BlockOf(Heap, calls[t].ptr)} :
       SetCall(t, [calls[t] EXCEPT !.at = "ready",
                                   !.blockSize = U16(UMM_NBLOCK(Heap, c) - c),
                                   !.outside = @ \/ lock # t], FALSE)
  /\ UNCHANGED <<heap, umm_heap_current, ummHeapInfo, fit, live, last, lock, corrupted, svars>>

\* umm_realloc: UMM_CRITICAL_ENTRY(id_realloc)
ReallocEnter(t) ==
  /\ calls[t].fn = "umm_realloc" /\ calls[t].at = "ready"
  /\ lock = Unlocked
  /\ lock' = t
  /\ SetCall(t, Entered(calls[t]), FALSE)
  /\ UNCHANGED <<heap, umm_heap_current, ummHeapInfo, fit, live, last, corrupted, svars>>

\* umm_realloc: the cases and the split, with the locals read earlier.
ReallocCore(t) ==
  /\ calls[t].fn = "umm_realloc" /\ calls[t].at = "inside"
  /\ \E r \in {ReallocLocked(Heap, fit, calls[t].ptr, calls[t].size,
                             umm_blocks(calls[t].size), BlockOf(Heap, calls[t].ptr),
                             calls[t].blockSize,
                             (calls[t].blockSize * UMM_BLOCKSIZE) - SizeofHeader)} :
       /\ Store(r.u)
       /\ live' = IF r.ptr # NULL THEN (live \ {calls[t].ptr}) \cup {r.ptr} ELSE live
       /\ SetCall(t, [calls[t] EXCEPT !.at = "leaving", !.ret = r.ptr,
                                      !.outside = @ \/ lock # t,
                                      !.own = IF r.ptr # NULL
                                                THEN (@ \ {calls[t].ptr}) \cup {r.ptr}
                                                ELSE @], TRUE)
  /\ UNCHANGED <<fit, last, lock, corrupted, svars>>

\* umm_realloc: UMM_CRITICAL_EXIT(id_realloc); return ptr;
ReallocExit(t) ==
  /\ calls[t].fn = "umm_realloc" /\ calls[t].at = "leaving"
  /\ lock' = Unlocked
  /\ SetCall(t, Returned(Exited(calls[t]), calls[t].ret, "normal"), FALSE)
  /\ UNCHANGED <<heap, umm_heap_current, ummHeapInfo, fit, live, last, corrupted, svars>>

\* umm_info: UMM_CRITICAL_ENTRY(id_info)
InfoEnter(t) ==
  /\ calls[t].fn = "umm_info" /\ calls[t].at = "called"
  /\ lock = Unlocked
  /\ lock' = t
  /\ SetCall(t, Entered(calls[t]), FALSE)
  /\ UNCHANGED <<heap, umm_heap_current, ummHeapInfo, fit, live, last, corrupted, svars>>

\* umm_info: the memset of ummHeapInfo and the walk, to where it leaves.
InfoCore(t) ==
  /\ calls[t].fn = "umm_info" /\ calls[t].at = "inside"
  /\ \E r \in {umm_info(Heap, calls[t].ptr)} :
       /\ Store(r.u)
       /\ SetCall(t, [calls[t] EXCEPT !.at = "leaving", !.ret = r.ret, !.path = r.path,
                                      !.outside = @ \/ lock # t], FALSE)
  /\ UNCHANGED <<fit, live, last, lock, corrupted, svars>>

\* The return on a match without the exit.
InfoMatchExit_returns_inside(t) ==
  /\ calls[t].fn = "umm_info" /\ calls[t].at = "leaving"
  /\ calls[t].path = "match"
  /\ SetCall(t, Returned(calls[t], calls[t].ret, "match"), FALSE)
  /\ UNCHANGED <<heap, umm_heap_current, ummHeapInfo, fit, live, last, lock, corrupted, svars>>

\* umm_info, inside the loop: UMM_CRITICAL_EXIT(id_info); return ptr;
InfoMatchExit(t) ==
  /\ calls[t].fn = "umm_info" /\ calls[t].at = "leaving"
  /\ calls[t].path = "match"
  /\ lock' = Unlocked
  /\ SetCall(t, Returned(Exited(calls[t]), calls[t].ret, "match"), FALSE)
  /\ UNCHANGED <<heap, umm_heap_current, ummHeapInfo, fit, live, last, corrupted, svars>>

\* umm_info, at the end: UMM_CRITICAL_EXIT(id_info); return NULL;
InfoExit(t) ==
  /\ calls[t].fn = "umm_info" /\ calls[t].at = "leaving"
  /\ calls[t].path = "end"
  /\ lock' = Unlocked
  /\ SetCall(t, Returned(Exited(calls[t]), NULL, "end"), FALSE)
  /\ UNCHANGED <<heap, umm_heap_current, ummHeapInfo, fit, live, last, corrupted, svars>>

\* umm_integrity_check: UMM_CRITICAL_ENTRY(id_integrity)
IntegrityEnter(t) ==
  /\ calls[t].fn = "umm_integrity_check" /\ calls[t].at = "called"
  /\ lock = Unlocked
  /\ lock' = t
  /\ SetCall(t, Entered(calls[t]), FALSE)
  /\ UNCHANGED <<heap, umm_heap_current, ummHeapInfo, fit, live, last, corrupted, svars>>

\* umm_integrity_check: the two loops, to the break or the goto clean.
\* The result is kept as 1 for true and 0 for false.
IntegrityCore(t) ==
  /\ calls[t].fn = "umm_integrity_check" /\ calls[t].at = "inside"
  /\ \E w \in {umm_integrity_check(Heap)} :
       /\ Store(w.u)
       /\ SetCall(t, [calls[t] EXCEPT !.at = "leaving", !.path = w.path,
                                      !.ret = IF w.ok THEN 1 ELSE 0,
                                      !.outside = @ \/ lock # t], FALSE)
  /\ UNCHANGED <<fit, live, last, lock, corrupted, svars>>

\* umm_integrity_check: clean: UMM_CRITICAL_EXIT(id_integrity);
\* if (!ok) UMM_HEAP_CORRUPTION_CB(); return ok;
IntegrityClean(t) ==
  /\ calls[t].fn = "umm_integrity_check" /\ calls[t].at = "leaving"
  /\ lock' = Unlocked
  /\ SetCall(t, Returned(Exited(calls[t]), calls[t].ret, calls[t].path), FALSE)
  /\ callbacks' = IF calls[t].ret = 0 THEN callbacks + 1 ELSE callbacks
  /\ UNCHANGED <<heap, umm_heap_current, ummHeapInfo, fit, live, last, corrupted, history>>

\* umm_poison_check: UMM_CRITICAL_ENTRY(id_poison)
PoisonEnter(t) ==
  /\ calls[t].fn = "umm_poison_check" /\ calls[t].at = "called"
  /\ lock = Unlocked
  /\ lock' = t
  /\ SetCall(t, Entered(calls[t]), FALSE)
  /\ UNCHANGED <<heap, umm_heap_current, ummHeapInfo, fit, live, last, corrupted, svars>>

\* umm_poison_check: the loop, to its end or the break.
PoisonCore(t) ==
  /\ calls[t].fn = "umm_poison_check" /\ calls[t].at = "inside"
  /\ \E ok \in umm_poison_check(Heap) :
       SetCall(t, [calls[t] EXCEPT !.at = "leaving", !.ret = IF ok THEN 1 ELSE 0,
                                   !.path = IF ok THEN "end" ELSE "break",
                                   !.outside = @ \/ lock # t], FALSE)
  /\ UNCHANGED <<heap, umm_heap_current, ummHeapInfo, fit, live, last, lock, corrupted, svars>>

\* umm_poison_check: UMM_CRITICAL_EXIT(id_poison); return ok;
PoisonExit(t) ==
  /\ calls[t].fn = "umm_poison_check" /\ calls[t].at = "leaving"
  /\ lock' = Unlocked
  /\ SetCall(t, Returned(Exited(calls[t]), calls[t].ret, calls[t].path), FALSE)
  /\ UNCHANGED <<heap, umm_heap_current, ummHeapInfo, fit, live, last, corrupted, svars>>

\* What a stray write leaves in a link field.
WildValues(u) == {0, 1, 2, u.numblocks}

\* A caller's code writes 16 bits past the end of a region it owns, into
\* the header or the links of the block that follows, while no call is in
\* progress.
WildWrite(t) ==
  /\ ~corrupted
  /\ \A o \in Callers : calls[o].at \in {"idle", "returned"}
  /\ CallsMade < MaxCalls
  /\ \E p \in calls[t].own, off \in {OffNBLOCK(0), OffPBLOCK(0), OffNFREE(0), OffPFREE(0)},
        v \in WildValues(Heap) :
       \E b \in {BlockNo(UMM_NBLOCK(Heap, BlockOf(Heap, p)))} :
         /\ Rd16(heap, OffNBLOCK(b) + off) # v
         /\ heap' = Wr16(heap, OffNBLOCK(b) + off, v)
  /\ corrupted' = TRUE
  /\ UNCHANGED <<umm_heap_current, ummHeapInfo, fit, live, last, calls, lock, svars>>

CritNext ==
  \E t \in Callers :
    \/ Begin(t)
    \/ MallocZero(t)
    \/ MallocEnter(t)
    \/ MallocCore(t)
    \/ MallocExit(t)
    \/ FreeNull(t)
    \/ FreeEnter(t)
    \/ FreeCore(t)
    \/ FreeExit(t)
    \/ ReallocNull(t)
    \/ ReallocZero(t)
    \/ ReallocRead(t)
    \/ ReallocEnter(t)
    \/ ReallocCore(t)
    \/ ReallocExit(t)
    \/ InfoEnter(t)
    \/ InfoCore(t)
    \/ InfoMatchExit(t)
    \/ InfoExit(t)
    \/ IntegrityEnter(t)
    \/ IntegrityCore(t)
    \/ IntegrityClean(t)
    \/ PoisonEnter(t)
    \/ PoisonCore(t)
    \/ PoisonExit(t)
    \/ WildWrite(t)

CritSpec == CritInit /\ [][CritNext]_vars

(* ------------------------------------------------------------------ *)
(* Scenarios on a heap of 128 bytes                                    *)
(* ------------------------------------------------------------------ *)

(***************************************************************************)
(* ScenarioSpec runs short sequences of calls on a heap of 16 blocks,      *)
(* freshly initialised, and keeps in history every call with its result.   *)
(* A call of one of the query functions ends the sequence.                 *)
(***************************************************************************)

\* The calls of a scenario at most.
MaxOps == 4

ScenarioHeapSize == 16 * UMM_BLOCKSIZE

\* One block, two blocks with room to spare, two blocks exactly.
ScenarioSizes == {SizeofBody, SizeofBody + 6, SizeofBody + UMM_BLOCKSIZE}

Queries == {"umm_free_heap_size", "umm_usage_metric", "umm_fragmentation_metric"}

\* An entry of history; inline is the build a query function is taken from.
Op(op, ptr, size, ret, rcase, inline) ==
  [op |-> op, ptr |-> ptr, size |-> size, ret |-> ret, rcase |-> rcase, inline |-> inline]

\* The scenario goes on: there are calls left, and no query has been made.
ScenarioOpen ==
  /\ Len(history) < MaxOps
  /\ \A k \in 1 .. Len(history) : history[k].op \notin Queries

ScenarioInit ==
  \E f \in FitPolicies :
    \E u \in {umm_init_heap(UMM_MALLOC_CFG_HEAP_ADDR, ScenarioHeapSize)} :
        /\ heap = u.mem
        /\ umm_heap_current = [pheap |-> u.pheap, heap_size |-> u.heap_size, numblocks |-> u.numblocks]
        /\ ummHeapInfo = u.info
        /\ fit = f
        /\ live = {}
        /\ last = NoCall
        /\ calls = [t \in Callers |-> IdleCall]
        /\ lock = Unlocked
        /\ corrupted = FALSE
        /\ history = <<>>
        /\ callbacks = 0

ScenarioMalloc ==
  /\ ScenarioOpen
  /\ \E size \in ScenarioSizes :
       \E r \in {umm_malloc(Heap, fit, size)} :
         /\ Store(r.u)
         /\ live' = live \cup ({r.ptr} \ {NULL})
         /\ history' = Append(history, Op("umm_malloc", NULL, size, r.ptr, 0, FALSE))
  /\ UNCHANGED <<fit, last, cvars, callbacks>>

ScenarioFree ==
  /\ ScenarioOpen
  /\ \E ptr \in live :
       \E u \in {umm_free(Heap, ptr)} :
         /\ Store(u)
         /\ live' = live \ {ptr}
         /\ history' = Append(history, Op("umm_free", ptr, 0, NULL, 0, FALSE))
  /\ UNCHANGED <<fit, last, cvars, callbacks>>

ScenarioRealloc ==
  /\ ScenarioOpen
  /\ \E ptr \in live, size \in ScenarioSizes :
       \E r \in {umm_realloc(Heap, fit, ptr, size)} :
         /\ Store(r.u)
         /\ live' = IF r.ptr # NULL THEN (live \ {ptr}) \cup {r.ptr} ELSE live
         /\ history' = Append(history, Op("umm_realloc", ptr, size, r.ptr, r.rcase, FALSE))
  /\ UNCHANGED <<fit, last, cvars, callbacks>>

ScenarioQuery ==
  /\ ScenarioOpen
  /\ \E q \in Queries, inline \in BOOLEAN :
       \E r \in {IF q = "umm_free_heap_size" THEN umm_free_heap_size(Heap, inline)
                 ELSE IF q = "umm_usage_metric" THEN umm_usage_metric(Heap, inline)
                 ELSE umm_fragmentation_metric(Heap, inline)} :
         /\ Store(r.u)
         /\ history' = Append(history, Op(q, NULL, 0, r.ret, 0, inline))
  /\ UNCHANGED <<fit, live, last, cvars, callbacks>>

ScenarioNext ==
  \/ ScenarioMalloc
  \/ ScenarioFree
  \/ ScenarioRealloc
  \/ ScenarioQuery

ScenarioSpec == ScenarioInit /\ [][ScenarioNext]_vars

(* ------------------------------------------------------------------ *)
(* Poisoned allocations                                                *)
(* ------------------------------------------------------------------ *)

(***************************************************************************)
(* A poisoned region is laid out, from the body of its block on, as the    *)
(* length word, UMM_POISON_SIZE_BEFORE poison bytes, the caller's bytes    *)
(* and UMM_POISON_SIZE_AFTER poison bytes.  The three sizes are set by the *)
(* host's configuration; the model takes 4, 4 and a 16-bit length word.    *)
(***************************************************************************)
POISON_BYTE == 165

UMM_POISON_SIZE_BEFORE == 4

UMM_POISON_SIZE_AFTER == 4

\* sizeof(UMM_POISONED_BLOCK_LEN_TYPE)
SizeofPoisonLen == 2

poison_size(s) ==
  IF s # 0 THEN UMM_POISON_SIZE_BEFORE + SizeofPoisonLen + UMM_POISON_SIZE_AFTER ELSE 0

\* The loop of check_poison: true if all n bytes at ptr are POISON_BYTE.
check_poison(u, ptr, n) ==
  \A i \in 0 .. n - 1 : u.mem[(ptr - u.pheap) + i] = POISON_BYTE

\* check_poison_block(&UMM_BLOCK(c))
check_poison_block(u, c) ==
  IF FreeBit(UMM_NBLOCK(u, c)) # 0
    THEN TRUE
    ELSE Do(DataPtr(u, c), LAMBDA pc :
         IF ~check_poison(u, pc + SizeofPoisonLen, UMM_POISON_SIZE_BEFORE)
           THEN FALSE
           ELSE check_poison(u, (pc + Rd16(u.mem, pc - u.pheap)) - UMM_POISON_SIZE_AFTER,
                             UMM_POISON_SIZE_AFTER))

\* put_poison(ptr, n): memset(ptr, POISON_BYTE, n)
put_poison(u, ptr, n) ==
  [u EXCEPT !.mem = [a \in DOMAIN u.mem |->
                       IF a >= ptr - u.pheap /\ a < (ptr - u.pheap) + n THEN POISON_BYTE ELSE @[a]]]

\* Returns [u, ptr].
get_poisoned(u, ptr, size_w_poison) ==
  IF size_w_poison # 0 /\ ptr # NULL
    THEN Do(put_poison(u, ptr + SizeofPoisonLen, UMM_POISON_SIZE_BEFORE), LAMBDA u1 :
         Do(put_poison(u1, (ptr + size_w_poison) - UMM_POISON_SIZE_AFTER, UMM_POISON_SIZE_AFTER),
            LAMBDA u2 :
         [u |-> [u2 EXCEPT !.mem = Wr16(@, ptr - u.pheap, U16(size_w_poison))],
          ptr |-> ptr + SizeofPoisonLen + UMM_POISON_SIZE_BEFORE]))
    ELSE [u |-> u, ptr |-> ptr]

\* Returns [ptr, ok]: the pointer get_unpoisoned returns, and what its call
\* of check_poison_block found, which the function does not use.
get_unpoisoned(u, ptr) ==
  IF ptr # NULL
    THEN Do(ptr - (SizeofPoisonLen + UMM_POISON_SIZE_BEFORE), LAMBDA raw :
         [ptr |-> raw, ok |-> check_poison_block(u, BlockOf(u, raw))])
    ELSE [ptr |-> ptr, ok |-> TRUE]

\* The loop of umm_poison_check from block cur on: false at the first used
\* block whose poison is not there.
RECURSIVE PoisonCheckLoop(_, _)
PoisonCheckLoop(u, cur) ==
  IF BlockNo(UMM_NBLOCK(u, cur)) = 0
    THEN TRUE
  ELSE IF FreeBit(UMM_NBLOCK(u, cur)) = 0 /\ ~check_poison_block(u, cur)
    THEN FALSE
  ELSE PoisonCheckLoop(u, BlockNo(UMM_NBLOCK(u, cur)))

\* The sizes asked of umm_poison_malloc and umm_poison_realloc: with the
\* poison they take none, two and three blocks.
PoisonSizes == {0, 1, 3}

\* The bytes of the poisoned region at raw that hold neither the length
\* word nor poison: the caller's, never written here, and the slack.
PoisonFresh(u, raw, size_w_poison) ==
  IF raw = NULL
    THEN {}
    ELSE RegionBytes(u, raw, SizeofPoisonLen + UMM_POISON_SIZE_BEFORE,
                     size_w_poison - UMM_POISON_SIZE_AFTER)
           \cup RegionBytes(u, raw, size_w_poison, UsableBytes(u, raw))

\* The pointer whose poison has been overwritten.
Damaged == history[1].ptr

\* After the damage one more call is made, on the damaged region or of
\* umm_poison_check.
PoisonOpen == ~(corrupted /\ last # NoCall)

PoisonPtrs == IF corrupted THEN {Damaged} ELSE live \cup {NULL}

\* What a call has left: the heap, the live pointers, the call.  None of
\* the poison functions invokes UMM_HEAP_CORRUPTION_CB.
PoisonDone(u, nowLive, call) ==
  /\ Store(u)
  /\ live' = nowLive
  /\ last' = call
  /\ UNCHANGED <<fit, cvars, svars>>

\* umm_poison_malloc(size)
PoisonMalloc ==
  /\ PoisonOpen /\ ~corrupted
  /\ \E size \in PoisonSizes :
       \E m \in {umm_malloc(Heap, fit, size + poison_size(size))} :
         \E g \in {get_poisoned(m.u, m.ptr, size + poison_size(size))} :
           PoisonDone(Scrub(g.u, PoisonFresh(g.u, m.ptr, size + poison_size(size))),
                      live \cup ({g.ptr} \ {NULL}),
                      Call("umm_poison_malloc", NULL, size, 0, g.ptr, 0, m.diverged))

\* umm_poison_free(ptr); num is 1 if check_poison_block found the poison.
PoisonFree ==
  /\ PoisonOpen
  /\ \E ptr \in PoisonPtrs :
       \E raw \in {get_unpoisoned(Heap, ptr)} :
         PoisonDone(Scrub(umm_free(Heap, raw.ptr), {}),
                    live \ {ptr},
                    Call("umm_poison_free", ptr, 0, IF raw.ok THEN 1 ELSE 0, NULL, 0, FALSE))

\* umm_poison_realloc(ptr, size)
PoisonRealloc ==
  /\ PoisonOpen
  /\ \E ptr \in PoisonPtrs, size \in PoisonSizes :
       \E raw \in {get_unpoisoned(Heap, ptr)} :
         \E r \in {umm_realloc(Heap, fit, raw.ptr, size + poison_size(size))} :
           \E g \in {get_poisoned(r.u, r.ptr, size + poison_size(size))} :
             PoisonDone(Scrub(g.u, PoisonFresh(g.u, r.ptr, size + poison_size(size))),
                        IF size = 0 \/ g.ptr # NULL
                          THEN (live \ {ptr}) \cup ({g.ptr} \ {NULL})
                          ELSE live,
                        Call("umm_poison_realloc", ptr, size, IF raw.ok THEN 1 ELSE 0,
                             g.ptr, r.rcase, r.diverged))

\* umm_poison_check(); ret is 1 for true and 0 for false.
PoisonCheck ==
  /\ PoisonOpen
  /\ \E ok \in {PoisonCheckLoop(Heap, BlockNo(UMM_NBLOCK(Heap, 0)))} :
       PoisonDone(Heap, live,
                  Call("umm_poison_check", NULL, 0, 0, IF ok THEN 1 ELSE 0, 0, FALSE))

\* The caller's code writes a zero over one byte of the poison before or
\* after a region it owns.
Overrun ==
  /\ PoisonOpen /\ ~corrupted
  /\ \E p \in live, i \in 0 .. UMM_POISON_SIZE_BEFORE + UMM_POISON_SIZE_AFTER - 1 :
       \E raw \in {p - (SizeofPoisonLen + UMM_POISON_SIZE_BEFORE)} :
         \E a \in {IF i < UMM_POISON_SIZE_BEFORE
                     THEN (p - umm_heap_current.pheap) - (1 + i)
                     ELSE ((raw - umm_heap_current.pheap) + Rd16(heap, raw - umm_heap_current.pheap))
                            - (1 + (i - UMM_POISON_SIZE_BEFORE))} :
           /\ heap' = [heap EXCEPT ![a] = 0]
           /\ history' = <<Op("overrun", p, a, NULL, 0, FALSE)>>
  /\ corrupted' = TRUE
  /\ last' = NoCall
  /\ UNCHANGED <<umm_heap_current, ummHeapInfo, fit, live, calls, lock, callbacks>>

PoisonNext ==
  \/ PoisonMalloc
  \/ PoisonFree
  \/ PoisonRealloc
  \/ PoisonCheck
  \/ Overrun

PoisonSpec == Init /\ [][PoisonNext]_vars

(* ------------------------------------------------------------------ *)
(* umm_init_heap over regions of any size                              *)
(* ------------------------------------------------------------------ *)

\* The regions handed to umm_init_heap: from two blocks up to
\* MaxInitBlocks, with every remainder the division drops.
MaxInitBlocks == 9

InitSizes ==
  {(UMM_BLOCKSIZE * n) + r : n \in 2 .. MaxInitBlocks, r \in 0 .. UMM_BLOCKSIZE - 1}

\* The control of the while loop of umm_info from block blockNo on, with n
\* blocks visited.  The loop has no bound of its own: a walk that visits
\* more blocks than the heap has is on a cycle and never ends (diverged).
RECURSIVE InfoLoop(_, _, _)
InfoLoop(u, blockNo, n) ==
  IF BlockNo(UMM_NBLOCK(u, blockNo)) = 0
    THEN [visited |-> n, diverged |-> FALSE]
  ELSE IF n > u.numblocks
    THEN [visited |-> n, diverged |-> TRUE]
  ELSE InfoLoop(u, BlockNo(UMM_NBLOCK(u, blockNo)), n + 1)

\* The state umm_init_heap(ptr, size) leaves.
InitLeaves(size) ==
  \E u \in {umm_init_heap(UMM_MALLOC_CFG_HEAP_ADDR, size)} :
    /\ heap = u.mem
    /\ umm_heap_current = [pheap |-> u.pheap, heap_size |-> u.heap_size, numblocks |-> u.numblocks]
    /\ ummHeapInfo = u.info
    /\ last = Call("umm_init_heap", UMM_MALLOC_CFG_HEAP_ADDR, size, 0, NULL, 0, FALSE)

InitOfAnySize ==
  /\ \E size \in InitSizes : InitLeaves(size)
  /\ fit \in FitPolicies
  /\ live = {}
  /\ calls = [t \in Callers |-> IdleCall]
  /\ lock = Unlocked
  /\ corrupted = FALSE
  /\ history = <<>>
  /\ callbacks = 0

\* umm_init_heap called again, over a region of another size.
InitAgain ==
  /\ \E size \in InitSizes :
       \E u \in {umm_init_heap(UMM_MALLOC_CFG_HEAP_ADDR, size)} :
         /\ Store(u)
         /\ last' = Call("umm_init_heap", UMM_MALLOC_CFG_HEAP_ADDR, size, 0, NULL, 0, FALSE)
  /\ live' = {}
  /\ UNCHANGED <<fit, cvars, svars>>

\* umm_info(NULL, false) right after umm_init_heap: num is the number of
\* blocks the walk visited; a walk that does not end leaves no record.
InfoAfterInit ==
  /\ last.op = "umm_init_heap"
  /\ \E w \in {InfoLoop(Heap, BlockNo(UMM_NBLOCK(Heap, 0)), 0)} :
       /\ IF w.diverged THEN UNCHANGED <<heap, umm_heap_current, ummHeapInfo>>
                        ELSE Store(umm_info(Heap, NULL).u)
       /\ last' = Call("umm_info", NULL, 0, w.visited, NULL, 0, w.diverged)
  /\ UNCHANGED <<fit, live, cvars, svars>>

\* The sizes asked of umm_malloc on a fresh heap: every size up to one block
\* more than the largest heap holds, and sizes whose block count is clamped.
InitAllocSizes ==
  (0 .. UMM_BLOCKSIZE * (MaxInitBlocks - 1)) \cup {UMM_BLOCKSIZE * INT16_MAX, SIZE_TOP}

\* umm_malloc(size) as the first call after umm_init_heap.
MallocAfterInit ==
  /\ last.op = "umm_init_heap"
  /\ \E size \in InitAllocSizes :
       \E r \in {umm_malloc(Heap, fit, size)} :
         /\ Store(r.u)
         /\ live' = IF r.ptr # NULL THEN live \cup {r.ptr} ELSE live
         /\ last' = Call("umm_malloc", NULL, size, 0, r.ptr, 0, r.diverged)
  /\ UNCHANGED <<fit, cvars, svars>>

InitNext == InitAgain \/ InfoAfterInit \/ MallocAfterInit

InitSpec == InitOfAnySize /\ [][InitNext]_vars

(* ------------------------------------------------------------------ *)
(* The public operations with umm_info among them                      *)
(* ------------------------------------------------------------------ *)

\* umm_info(ptr, false), with ptr NULL or the address of a block of the chain.
Info ==
  /\ last = NoCall
  /\ \E ptr \in {NULL} \cup {Heap.pheap + OffNBLOCK(b) : b \in Chain(Heap) \ {0}} :
       \E r \in {umm_info(Heap, ptr)} :
         /\ Store(r.u)
         /\ Observe(Call("umm_info", ptr, 0, 0, r.ret, 0, FALSE))
         /\ UNCHANGED <<fit, live, cvars, svars>>

MetricNext ==
  \/ Malloc
  \/ Free
  \/ Realloc
  \/ Info

MetricSpec == Init /\ [][MetricNext]_vars

(* ------------------------------------------------------------------ *)
(* umm_integrity_check on heaps of any content                         *)
(* ------------------------------------------------------------------ *)

\* At most MaxWild link fields hold something the allocator did not put there.
MaxWild == 3

\* The first loop of umm_integrity_check, with n nodes visited.  The loop is
\* a while (1): a walk that visits more nodes than the heap has blocks is on
\* a cycle and never ends (diverged).
RECURSIVE IntegrityFreeLoop_no_backlink(_, _, _)
IntegrityFreeLoop_no_backlink(u, prev, n) ==
  Do(UMM_NFREE(u, prev), LAMBDA cur :
  IF n > u.numblocks
    THEN [u |-> u, ok |-> TRUE, visited |-> n, diverged |-> TRUE]
  ELSE IF cur >= u.numblocks
    THEN [u |-> u, ok |-> FALSE, visited |-> n, diverged |-> FALSE]
  ELSE IF cur = 0
    THEN [u |-> u, ok |-> TRUE, visited |-> n, diverged |-> FALSE]
  ELSE Do(SetPBLOCK(u, cur, OrMask(UMM_PBLOCK(u, cur), UMM_FREELIST_MASK)), LAMBDA u1 :
       IntegrityFreeLoop_no_backlink(u1, cur, n + 1)))

RECURSIVE IntegrityFreeLoop(_, _, _)
IntegrityFreeLoop(u, prev, n) ==
  Do(UMM_NFREE(u, prev), LAMBDA cur :
  IF n > u.numblocks
    THEN [u |-> u, ok |-> TRUE, visited |-> n, diverged |-> TRUE]
  ELSE IF cur >= u.numblocks
    THEN [u |-> u, ok |-> FALSE, visited |-> n, diverged |-> FALSE]
  ELSE IF cur = 0
    THEN [u |-> u, ok |-> TRUE, visited |-> n, diverged |-> FALSE]
  ELSE IF UMM_PFREE(u, cur) # prev
    THEN [u |-> u, ok |-> FALSE, visited |-> n, diverged |-> FALSE]
  ELSE Do(SetPBLOCK(u, cur, OrMask(UMM_PBLOCK(u, cur), UMM_FREELIST_MASK)), LAMBDA u1 :
       IntegrityFreeLoop(u1, cur, n + 1)))

\* The second loop, with n blocks visited, bounded in the same way.
RECURSIVE IntegrityBlockLoop(_, _, _)
IntegrityBlockLoop(u, prev, n) ==
  Do(BlockNo(UMM_NBLOCK(u, prev)), LAMBDA cur :
  IF n > u.numblocks
    THEN [u |-> u, ok |-> TRUE, visited |-> n, diverged |-> TRUE]
  ELSE IF cur >= u.numblocks
    THEN [u |-> u, ok |-> FALSE, visited |-> n, diverged |-> FALSE]
  ELSE IF cur = 0
    THEN [u |-> u, ok |-> TRUE, visited |-> n, diverged |-> FALSE]
  ELSE IF FreeBit(UMM_NBLOCK(u, cur)) # FreeBit(UMM_PBLOCK(u, cur))
    THEN [u |-> u, ok |-> FALSE, visited |-> n, diverged |-> FALSE]
  ELSE IF cur <= prev
    THEN [u |-> u, ok |-> FALSE, visited |-> n, diverged |-> FALSE]
  ELSE Do(SetPBLOCK(u, cur, BlockNo(UMM_PBLOCK(u, cur))), LAMBDA u1 :
       IF UMM_PBLOCK(u1, cur) # prev
         THEN [u |-> u1, ok |-> FALSE, visited |-> n, diverged |-> FALSE]
         ELSE IntegrityBlockLoop(u1, cur, n + 1)))

\* The two loops one after the other; free and blocks count the visits of each.
IntegrityLoops(u) ==
  Do(IntegrityFreeLoop(u, 0, 0), LAMBDA w :
  IF w.diverged \/ ~w.ok
    THEN [u |-> w.u, ok |-> w.ok, free |-> w.visited, blocks |-> 0, diverged |-> w.diverged]
    ELSE Do(IntegrityBlockLoop(w.u, 0, 0), LAMBDA x :
         [u |-> x.u, ok |-> x.ok, free |-> w.visited, blocks |-> x.visited, diverged |-> x.diverged]))

\* The region of the heaps that get damaged: three blocks, the two sentinels
\* and one block between them.
WildHeapSizes == {UMM_BLOCKSIZE * 3}

\* What a link field may hold: indices in and out of range, with and without
\* the bit of UMM_FREELIST_MASK.
AnyValues(u) ==
  (0 .. u.numblocks) \cup {UMM_FREELIST_MASK + 1, UMM_FREELIST_MASK + 2}

\* The byte offsets of the link fields of all blocks.
LinkFields(u) ==
  {OffNBLOCK(b) + off : b \in 0 .. u.numblocks - 1,
                        off \in {OffNBLOCK(0), OffPBLOCK(0), OffNFREE(0), OffPFREE(0)}}

\* The link fields of mem that differ from those of fresh.
Damage(u, fresh, mem) == {f \in LinkFields(u) : Rd16(mem, f) # Rd16(fresh, f)}

WildInit ==
  /\ \E size \in WildHeapSizes :
       \E u \in {umm_init_heap(UMM_MALLOC_CFG_HEAP_ADDR, size)} :
         /\ heap = u.mem
         /\ umm_heap_current = [pheap |-> u.pheap, heap_size |-> u.heap_size, numblocks |-> u.numblocks]
         /\ ummHeapInfo = u.info
  /\ fit = "UMM_BEST_FIT"
  /\ live = {}
  /\ last = NoCall
  /\ calls = [t \in Callers |-> IdleCall]
  /\ lock = Unlocked
  /\ corrupted = FALSE
  /\ history = <<>>
  /\ callbacks = 0

\* A stray write of the program puts any value into any link field.
Scribble ==
  /\ last = NoCall
  /\ \E damaged \in {Damage(Heap, umm_init_heap(Heap.pheap, Heap.heap_size).mem, heap)} :
       \E f \in LinkFields(Heap), v \in AnyValues(Heap) :
         /\ Rd16(heap, f) # v
         /\ f \in damaged \/ Cardinality(damaged) < MaxWild
         /\ heap' = Wr16(heap, f, v)
  /\ corrupted' = TRUE
  /\ UNCHANGED <<umm_heap_current, ummHeapInfo, fit, live, last, calls, lock, svars>>

\* umm_integrity_check() on whatever the heap holds: ret is the boolean
\* returned (1 for true), size and num the nodes and blocks the loops visited.
IntegrityOnAny ==
  /\ last = NoCall
  /\ \E r \in {IntegrityLoops(Heap)} :
       /\ Store(r.u)
       /\ callbacks' = IF r.ok THEN callbacks ELSE callbacks + 1
       /\ last' = Call("umm_integrity_check", NULL, r.free, r.blocks,
                       IF r.ok THEN 1 ELSE 0, 0, r.diverged)
  /\ UNCHANGED <<fit, live, cvars, history>>

WildNext == Scribble \/ IntegrityOnAny

WildSpec == WildInit /\ [][WildNext]_vars

(* ------------------------------------------------------------------ *)
(* What the heap structure is read as                                  *)
(* ------------------------------------------------------------------ *)

InHeap(u, b) == b >= 0 /\ b < u.numblocks

\* next_block(b) & INDEX_MASK, and the extent [b, next) of block b.
NextIndex(u, b) == BlockNo(UMM_NBLOCK(u, b))

BlockRange(u, b) == b .. NextIndex(u, b) - 1

\* The block at which the walk from b stops: the first one whose next index
\* is 0, or the first index outside the heap, or where n steps are used up.
RECURSIVE ChainEndFrom(_, _, _)
ChainEndFrom(u, b, n) ==
  IF n = 0 \/ ~InHeap(u, b) \/ NextIndex(u, b) = 0
    THEN b
    ELSE ChainEndFrom(u, NextIndex(u, b), n - 1)

ChainEnd(u) == ChainEndFrom(u, 0, u.numblocks)

\* The nodes met by following next_free from block 0 until it is 0 again,
\* in order; the walk stops at an index outside the heap and after n steps.
RECURSIVE FreeWalkFrom(_, _, _)
FreeWalkFrom(u, b, n) ==
  IF n = 0 \/ b = 0 \/ ~InHeap(u, b)
    THEN <<>>
    ELSE <<b>> \o FreeWalkFrom(u, UMM_NFREE(u, b), n - 1)

FreeWalk(u) == FreeWalkFrom(u, UMM_NFREE(u, 0), u.numblocks + 1)

FreeRing(u) == {FreeWalk(u)[k] : k \in 1 .. Len(FreeWalk(u))}

\* The chain blocks that carry the free flag.
FreeBlocks(u) == {c \in Chain(u) : IsFree(u, c)}

(* ------------------------------------------------------------------ *)
(* Structural invariants                                               *)
(* ------------------------------------------------------------------ *)

\* C1: after umm_init_heap and after every completed umm_malloc, umm_free of
\* a live pointer, umm_realloc or umm_calloc, every chain block i other than
\* the tail sentinel has a next index above i whose block points back to i,
\* and the walk from block 0 ends at block N-1, whose next index is 0.
ChainWellFormed ==
  /\ \A i \in Chain(Heap) :
       /\ NextIndex(Heap, i) > i
       /\ InHeap(Heap, NextIndex(Heap, i))
       /\ UMM_PBLOCK(Heap, NextIndex(Heap, i)) = i
  /\ ChainEnd(Heap) = UMM_BLOCK_LAST(Heap)
  /\ NextIndex(Heap, UMM_BLOCK_LAST(Heap)) = 0

\* A realloc that merged both neighbours and split off a free tail.
ChainAfterMergeAndSplit ==
  /\ last.op = "umm_realloc"
  /\ last.rcase = 5
  /\ FreeBlocks(Heap) # {}
  /\ Cardinality(Chain(Heap)) >= 3

\* C2: after every completed operation a block is reached by following
\* next_free from block 0 exactly if its next_block carries the free flag,
\* the walk comes back to block 0, and it has as many nodes as there are
\* chain blocks with the flag.
FreeRingCoherent ==
  /\ FreeRing(Heap) = FreeBlocks(Heap)
  /\ \A b \in 1 .. UMM_BLOCK_LAST(Heap) :
       (b \in Chain(Heap) \/ b = UMM_BLOCK_LAST(Heap)) =>
         (b \in FreeRing(Heap) <=> IsFree(Heap, b))
  /\ Len(FreeWalk(Heap)) = Cardinality(FreeBlocks(Heap))
  /\ IF FreeWalk(Heap) = <<>>
       THEN UMM_NFREE(Heap, 0) = 0
       ELSE UMM_NFREE(Heap, FreeWalk(Heap)[Len(FreeWalk(Heap))]) = 0

\* A free that left two separate free runs on the ring.
RingOfTwoAfterFree ==
  /\ last.op = "umm_free"
  /\ last.ptr # NULL
  /\ Len(FreeWalk(Heap)) >= 2

\* C3: after every completed operation, every ring node i, and block 0,
\* whose next_free is not 0 is the prev_free of that next node.
FreeBacklink ==
  \A i \in FreeRing(Heap) \cup {0} :
    UMM_NFREE(Heap, i) # 0 =>
      /\ InHeap(Heap, UMM_NFREE(Heap, i))
      /\ UMM_PFREE(Heap, UMM_NFREE(Heap, i)) = i

\* A malloc that carved its block out of one node of a ring of two.
RingRelinkedByMalloc ==
  /\ last.op = "umm_malloc"
  /\ last.ret # NULL
  /\ Len(FreeWalk(Heap)) >= 2

\* C4: after every completed umm_malloc, umm_free or umm_realloc no two
\* blocks next to each other in the chain are both free.
NoAdjacentFree ==
  \A i \in Chain(Heap) :
    IsFree(Heap, i) =>
      /\ InHeap(Heap, NextIndex(Heap, i))
      /\ ~IsFree(Heap, NextIndex(Heap, i))

\* A free of a block between two free runs: one run is left, covering the
\* whole heap, and the freed block was not its first.
FreeMergedBothSides ==
  /\ last.op = "umm_free"
  /\ last.ptr # NULL
  /\ last.ptr # DataPtr(Heap, 1)
  /\ FreeBlocks(Heap) = {1}
  /\ NextIndex(Heap, 1) = UMM_BLOCK_LAST(Heap)

(* ------------------------------------------------------------------ *)
(* Live regions and sentinels                                          *)
(* ------------------------------------------------------------------ *)

\* The live pointers are bodies of used chain blocks whose extents lie in
\* blocks 1..N-2 and meet neither each other nor a free run.
LiveRegionsDisjoint ==
  /\ \A p \in live :
       /\ p = DataPtr(Heap, BlockOf(Heap, p))
       /\ BlockOf(Heap, p) \in Chain(Heap)
       /\ ~IsFree(Heap, BlockOf(Heap, p))
       /\ BlockRange(Heap, BlockOf(Heap, p)) # {}
       /\ BlockRange(Heap, BlockOf(Heap, p)) \subseteq 1 .. UMM_BLOCK_LAST(Heap) - 1
  /\ \A p \in live, q \in live :
       p # q => BlockRange(Heap, BlockOf(Heap, p)) \cap BlockRange(Heap, BlockOf(Heap, q)) = {}
  /\ \A p \in live, f \in FreeBlocks(Heap) :
       BlockRange(Heap, BlockOf(Heap, p)) \cap BlockRange(Heap, f) = {}

\* A pointer that becomes live is the body of what was the start of a free
\* run: never a block that is live already.
NewLiveFromFree ==
  \A p \in live' \ live : BlockOf(Heap, p) \in FreeBlocks(Heap)

\* C5: at any time the regions returned by umm_malloc, umm_realloc and
\* umm_calloc and not yet freed are pairwise disjoint block ranges
\* [c, next_block(c)) inside blocks 1..N-2; none overlaps another live
\* region, a free run or a sentinel, and none is handed out twice.
LiveRegionsOwned == [](LiveRegionsDisjoint) /\ [][NewLiveFromFree]_vars

\* Three live regions around a free run.
ThreeLiveAndAFreeRun ==
  /\ Cardinality(live) >= 3
  /\ FreeBlocks(Heap) # {}
  /\ \E p \in live, f \in FreeBlocks(Heap) : BlockOf(Heap, p) > f

\* C6: block 0 and block N-1 are never returned and never carry the free
\* flag: in every reachable state next_block(0) = 1 with no flag,
\* next_block(N-1) = 0, and neither is a node of the free ring.
SentinelsKept ==
  /\ UMM_NBLOCK(Heap, 0) = 1
  /\ UMM_NBLOCK(Heap, UMM_BLOCK_LAST(Heap)) = 0
  /\ UMM_BLOCK_LAST(Heap) \notin FreeRing(Heap)
  /\ \A k \in 1 .. Len(FreeWalk(Heap)) - 1 : UMM_NFREE(Heap, FreeWalk(Heap)[k]) # 0
  /\ \A p \in live \cup ({last.ret} \ {NULL}) :
       BlockOf(Heap, p) \notin {0, UMM_BLOCK_LAST(Heap)}

\* A malloc that took the whole heap: its block lies between the sentinels
\* and the ring is empty.
WholeHeapAllocated ==
  /\ last.op = "umm_malloc"
  /\ BlockOf(Heap, last.ret) = 1
  /\ NextIndex(Heap, 1) = UMM_BLOCK_LAST(Heap)
  /\ FreeWalk(Heap) = <<>>

(* ------------------------------------------------------------------ *)
(* Results of umm_malloc and umm_realloc                               *)
(* ------------------------------------------------------------------ *)

\* The size of the run of blocks that starts at the chain block f.
RunSize(u, f) == U16(NextIndex(u, f) - f)

\* C7: for every size s >= 1, when umm_malloc(s) returns a pointer that is
\* not NULL, it is the body of a block that spans k = umm_blocks(s) blocks,
\* and the k * UMM_BLOCKSIZE - 4 bytes of its body are at least s.
AllocSpansBlocksFor ==
  (last.op = "umm_malloc" /\ last.size >= 1 /\ last.ret # NULL) =>
    /\ last.ret = DataPtr(Heap, BlockOf(Heap, last.ret))
    /\ U16(UMM_NBLOCK(Heap, BlockOf(Heap, last.ret)) - BlockOf(Heap, last.ret))
         = umm_blocks(last.size)
    /\ (umm_blocks(last.size) * UMM_BLOCKSIZE) - SizeofHeader >= last.size
    /\ UsableBytes(Heap, last.ret) >= last.size

\* A malloc of the smallest size that needs a second block, split off a
\* longer free run.
AllocOfTwoBlocksSplit ==
  /\ last.op = "umm_malloc"
  /\ last.size = SizeofBody + 1
  /\ last.ret # NULL
  /\ IsFree(Heap, NextIndex(Heap, BlockOf(Heap, last.ret)))

\* What the heap holds is what it held: memory, configuration and metric.
HeapUnchanged ==
  /\ heap' = heap
  /\ umm_heap_current' = umm_heap_current
  /\ ummHeapInfo' = ummHeapInfo

\* C8: umm_malloc(s) with s >= 1 returns NULL exactly if no free run on the
\* ring has umm_blocks(s) blocks or more, and when it returns NULL every
\* field of the heap is as it was before the call.
MallocNullIffNoFit ==
  [][(last'.op = "umm_malloc" /\ last'.size >= 1) =>
       /\ ~last'.diverged
       /\ (last'.ret = NULL) <=>
            ~(\E f \in FreeRing(Heap) : RunSize(Heap, f) >= umm_blocks(last'.size))
       /\ (last'.ret = NULL) => (HeapUnchanged /\ live' = live)]_vars

\* A malloc that failed on a fragmented heap: two free runs that together
\* have the blocks asked for, neither of them alone.
MallocFailedFragmented ==
  /\ last.op = "umm_malloc"
  /\ last.size >= 1
  /\ last.ret = NULL
  /\ \E f \in FreeBlocks(Heap), g \in FreeBlocks(Heap) :
       f # g /\ RunSize(Heap, f) + RunSize(Heap, g) >= umm_blocks(last.size)

\* C9: when umm_realloc(p, s) with live p and s > 0 cannot be satisfied
\* (case 6, and the new allocation fails) it returns NULL and the heap is
\* as before the call: every header, every free link and the contents of
\* p's block, and p is still live.
ReallocFailureLeavesHeap ==
  [][(last'.op = "umm_realloc" /\ last'.ptr # NULL /\ last'.size > 0 /\ last'.ret = NULL) =>
       /\ last'.rcase = 6
       /\ HeapUnchanged
       /\ live' = live
       /\ last'.ptr \in live'
       /\ ~IsFree(Heap', BlockOf(Heap', last'.ptr))]_vars

\* A realloc of a block with contents that failed while free runs exist.
ReallocFailedWithData ==
  /\ last.op = "umm_realloc"
  /\ last.ptr # NULL
  /\ last.size > 0
  /\ last.ret = NULL
  /\ heap[last.ptr - umm_heap_current.pheap] = Pattern(0)
  /\ FreeBlocks(Heap) # {}

\* C10: for live p and s > 0, a umm_realloc(p, s) that succeeds returns a
\* region whose first min(old_bytes, s) bytes are the first min(old_bytes, s)
\* bytes that were at p before the call, in each of the cases 1 to 6.
ReallocKeepsPrefix ==
  [][(last'.op = "umm_realloc" /\ last'.ptr # NULL /\ last'.size > 0 /\ last'.ret # NULL) =>
       /\ last'.rcase \in 1 .. 6
       /\ last'.ret \in live'
       /\ \A j \in 0 .. Min(UsableBytes(Heap, last'.ptr), last'.size) - 1 :
            heap'[(last'.ret - umm_heap_current.pheap) + j]
              = heap[(last'.ptr - umm_heap_current.pheap) + j]]_vars

\* A realloc that merged both neighbours and moved the caller's bytes to
\* the start of the previous block.
ReallocMovedDataDown ==
  /\ last.op = "umm_realloc"
  /\ last.rcase = 5
  /\ last.ret # last.ptr
  /\ \A j \in 0 .. SizeofBody - 1 : heap[(last.ret - umm_heap_current.pheap) + j] = Pattern(j)

(* ------------------------------------------------------------------ *)
(* Relations between the operations                                    *)
(* ------------------------------------------------------------------ *)

\* The free runs of the heap: start index and length.
FreeRuns(u) == {<<f, RunSize(u, f)>> : f \in FreeBlocks(u)}

\* C11: in any heap state and for any size s for which umm_malloc(s)
\* succeeds, umm_malloc(s) followed at once by umm_free of the pointer it
\* returned gives a heap with the same set of free runs (start, length) as
\* before the umm_malloc, all of them on the ring; the order of the ring's
\* nodes may differ.
AllocThenFreeRestoresRuns ==
  \A size \in AllocSizes :
    \E m \in {umm_malloc(Heap, fit, size)} :
      m.ptr # NULL =>
        \E u2 \in {umm_free(m.u, m.ptr)} :
          /\ FreeRuns(u2) = FreeRuns(Heap)
          /\ FreeRing(u2) = FreeBlocks(u2)
          /\ Len(FreeWalk(u2)) = Len(FreeWalk(Heap))

\* A heap with two free runs where a malloc is carved out of a run and the
\* free that follows puts that run back at another place of the ring.
AllocThenFreeReordersRing ==
  /\ Len(FreeWalk(Heap)) >= 2
  /\ \E size \in AllocSizes :
       \E m \in {umm_malloc(Heap, fit, size)} :
         /\ m.ptr # NULL
         /\ FreeBlocks(m.u) # FreeBlocks(Heap)
         /\ FreeWalk(umm_free(m.u, m.ptr)) # FreeWalk(Heap)

\* A completed umm_realloc of a live pointer to a size of at least 1 that
\* the block's body already holds.
ReallocWithinBlock ==
  /\ last'.op = "umm_realloc"
  /\ last'.ptr # NULL
  /\ last'.size >= 1
  /\ last'.size <= UsableBytes(Heap, last'.ptr)

\* Bytes from..to-1 at the pointer the call was given are as before the call.
BytesKept(from, to) ==
  \A j \in from .. to - 1 :
    heap'[(last'.ptr - umm_heap_current.pheap) + j] = heap[(last'.ptr - umm_heap_current.pheap) + j]

\* C12 as amended: for a live pointer p and 1 <= s <= bytes(p), umm_realloc(p, s)
\* returns p itself, and the first umm_blocks(s) * UMM_BLOCKSIZE - 4 bytes at
\* p, the body of the block that is left, are the same after the call as
\* before it.
ReallocWithinBlockKeepsNewBody ==
  [][ReallocWithinBlock =>
       /\ last'.ret = last'.ptr
       /\ last'.rcase = 1
       /\ BytesKept(0, (umm_blocks(last'.size) * UMM_BLOCKSIZE) - SizeofHeader)]_vars

\* C12 as stated: for a live pointer p and 1 <= s <= bytes(p), umm_realloc(p, s)
\* returns p itself and the first bytes(p) bytes at p are the same after the
\* call as before it.  (A byte that the call released and the allocator has
\* not written is not counted as changed.)
ReallocWithinBlockKeepsOldBody ==
  [][ReallocWithinBlock =>
       /\ last'.ret = last'.ptr
       /\ \A j \in 0 .. UsableBytes(Heap, last'.ptr) - 1 :
            heap'[(last'.ptr - umm_heap_current.pheap) + j] # Indeterminate =>
              heap'[(last'.ptr - umm_heap_current.pheap) + j]
                = heap[(last'.ptr - umm_heap_current.pheap) + j]]_vars

\* A realloc to fewer blocks of a block with contents: the pointer is the
\* same and the tail that was split off is a free run.
ReallocShrunkWithData ==
  /\ last.op = "umm_realloc"
  /\ last.rcase = 1
  /\ last.ret = last.ptr
  /\ last.size >= 1
  /\ heap[last.ptr - umm_heap_current.pheap] = Pattern(0)
  /\ IsFree(Heap, NextIndex(Heap, BlockOf(Heap, last.ptr)))
  /\ NextIndex(Heap, BlockOf(Heap, last.ptr)) = BlockOf(Heap, last.ptr) + umm_blocks(last.size)

\* The heap after the call is the heap u, as the model keeps it when the
\* bytes of fresh are new to the caller.
HeapBecomes(u, fresh) ==
  /\ heap' = Scrub(u, fresh).mem
  /\ umm_heap_current' = [pheap |-> u.pheap, heap_size |-> u.heap_size, numblocks |-> u.numblocks]
  /\ ummHeapInfo' = u.info

\* C13: umm_realloc(NULL, s) returns what umm_malloc(s) returns and has the
\* same effect on the heap, for every s, 0 included; umm_realloc(p, 0) for a
\* live p returns NULL and has the effect of umm_free(p) on the heap.
ReallocShortcuts ==
  [][((last'.op = "umm_realloc" /\ last'.ptr = NULL) =>
        \E m \in {umm_malloc(Heap, fit, last'.size)} :
          /\ last'.ret = m.ptr
          /\ HeapBecomes(m.u, IF m.ptr # NULL
                                THEN RegionBytes(m.u, m.ptr, 0, UsableBytes(m.u, m.ptr))
                                ELSE {})
          /\ live' = live \cup ({m.ptr} \ {NULL}))
     /\
     ((last'.op = "umm_realloc" /\ last'.ptr # NULL /\ last'.size = 0) =>
        (/\ last'.ret = NULL
         /\ HeapBecomes(umm_free(Heap, last'.ptr), {})
         /\ live' = live \ {last'.ptr}))]_vars

\* A realloc to size 0 of a live block whose neighbour was free: the block
\* is gone from the live pointers and one free run covers it.
ReallocToZeroFreed ==
  /\ last.op = "umm_realloc"
  /\ last.ptr # NULL
  /\ last.size = 0
  /\ last.ptr \notin live
  /\ \E f \in FreeBlocks(Heap) :
       BlockOf(Heap, last.ptr) \in BlockRange(Heap, f) /\ RunSize(Heap, f) >= 2

\* C14: umm_malloc(0), umm_calloc(0, n) and umm_calloc(n, 0) return NULL and
\* leave every field of the heap, and the live pointers, as they were.
ZeroSizeLeavesHeap ==
  [][((last'.op = "umm_malloc" /\ last'.size = 0)
        \/ (last'.op = "umm_calloc" /\ (last'.size = 0 \/ last'.num = 0))) =>
       (last'.ret = NULL /\ HeapUnchanged /\ live' = live)]_vars

\* A umm_calloc of no items of 3 bytes on a heap that has a live block and
\* a free run.
CallocOfNothing ==
  /\ last.op = "umm_calloc"
  /\ last.num = 0
  /\ last.size = 3
  /\ last.ret = NULL
  /\ live # {}
  /\ FreeRing(Heap) # {}

\* C15: umm_free(NULL) changes no field of the heap, in any state; the heap
\* after umm_free(p) and then umm_free(NULL) is the heap after umm_free(p).
FreeNullLeavesHeap ==
  /\ [](\A p \in live :
         \E u \in {umm_free(Heap, p)} : umm_free(u, NULL) = u)
  /\ [][(last'.op = "umm_free" /\ last'.ptr = NULL) =>
          (HeapUnchanged /\ live' = live)]_vars

\* A umm_free(NULL) on a heap part used and part free, with two runs on the
\* ring: a state that earlier umm_free calls have led to.
FreeNullAfterFrees ==
  /\ last.op = "umm_free"
  /\ last.ptr = NULL
  /\ live # {}
  /\ Cardinality(FreeRing(Heap)) >= 2

\* C19: umm_calloc(num, item_size) returns what umm_malloc of the true
\* product num * item_size returns (NULL when the product is more than
\* size_t holds: no heap has that many bytes), leaves the heap that call
\* leaves, and on success every one of the num * item_size bytes is zero.
CallocIsMallocOfProduct ==
  [][(last'.op = "umm_calloc") =>
       IF ProductExceedsSizeT(last'.size, last'.num)
         THEN last'.ret = NULL /\ HeapUnchanged /\ live' = live
         ELSE \E m \in {umm_malloc(Heap, fit, last'.size * last'.num)} :
                /\ last'.ret = m.ptr
                /\ umm_heap_current' = umm_heap_current
                /\ ummHeapInfo' = m.u.info
                /\ live' = live \cup ({m.ptr} \ {NULL})
                /\ \A c \in Chain(m.u) :
                     /\ UMM_NBLOCK(Heap', c) = UMM_NBLOCK(m.u, c)
                     /\ UMM_PBLOCK(Heap', c) = UMM_PBLOCK(m.u, c)
                /\ m.ptr # NULL =>
                     \A j \in 0 .. (last'.size * last'.num) - 1 :
                       heap'[(m.ptr - umm_heap_current.pheap) + j] = 0]_vars

\* C20 (as the code has it): every non-NULL pointer umm_malloc returns is
\* the address of a block body: its offset from the heap base, modulo the
\* block size, is the size of the block header.
MallocPtrPastHeader ==
  (last.op = "umm_malloc" /\ last.ret # NULL) =>
    (last.ret - umm_heap_current.pheap) % UMM_BLOCKSIZE = SizeofHeader

\* C20 (as stated): every non-NULL pointer umm_malloc returns is at a
\* multiple of the block size from the heap base.
MallocPtrBlockAligned ==
  (last.op = "umm_malloc" /\ last.ret # NULL) =>
    (last.ret - umm_heap_current.pheap) % UMM_BLOCKSIZE = 0

\* A umm_malloc that returned the body of a block other than the first,
\* behind a live block.
MallocBehindLiveBlock ==
  /\ last.op = "umm_malloc"
  /\ last.ret # NULL
  /\ BlockOf(Heap, last.ret) > 1
  /\ \E p \in live : p < last.ret

\* C16: no public operation reads or writes a heap block outside its own
\* critical section: no call has touched the heap while its caller did not
\* hold the lock.
NoHeapAccessOutside ==
  \A t \in Callers : ~calls[t].outside

\* The heap after the step is u: bytes, configuration and metric.
HeapIs(u) ==
  /\ heap' = u.mem
  /\ umm_heap_current' = [pheap |-> u.pheap, heap_size |-> u.heap_size, numblocks |-> u.numblocks]
  /\ ummHeapInfo' = u.info

\* The invariants of the heap structure: chain order and backlinks, the
\* free ring and its flags and backlinks, no free neighbours, the sentinels.
HeapInvariants ==
  /\ ChainWellFormed
  /\ FreeRingCoherent
  /\ FreeBacklink
  /\ NoAdjacentFree
  /\ SentinelsKept

\* Caller t does, in this step, what umm_malloc, umm_free or umm_realloc
\* does inside the critical section.
CoreStep(t) ==
  /\ calls[t].op \in {"umm_malloc", "umm_free", "umm_realloc"}
  /\ calls[t].at = "inside"
  /\ calls'[t].at = "leaving"

\* The step leaves the result and the heap that the whole operation, run at
\* once on the heap as it is before the step, gives.
SequentialEffect(t) ==
  IF calls[t].op = "umm_malloc"
    THEN \E m \in {umm_malloc(Heap, fit, calls[t].size)} :
           calls'[t].ret = m.ptr /\ HeapIs(m.u)
  ELSE IF calls[t].op = "umm_free"
    THEN calls'[t].ret = NULL /\ HeapIs(umm_free(Heap, calls[t].ptr))
  ELSE \E r \in {umm_realloc(Heap, fit, calls[t].ptr, calls[t].size)} :
         calls'[t].ret = r.ptr /\ HeapIs(r.u)

\* C17: with UMM_CRITICAL_ENTRY and UMM_CRITICAL_EXIT a lock and every
\* caller passing only pointers it owns, each umm_malloc, umm_free and
\* umm_realloc takes effect in one step inside its critical section, with
\* the result and the heap the operation gives when run alone on the heap
\* found at its entry; nothing else changes the heap, the value returned
\* is that result, and the heap invariants hold whenever no caller is
\* inside a critical section.
LinearizedAtEntry ==
  /\ []((lock = Unlocked /\ ~corrupted) => HeapInvariants)
  /\ [][\A t \in Callers :
          /\ CoreStep(t) => (lock = t /\ SequentialEffect(t))
          /\ (calls[t].at = "inside" /\ lock = t /\ ~CoreStep(t) /\ calls'[t].at = "inside")
               => HeapUnchanged
          /\ (calls[t].at = "leaving" /\ calls'[t].at = "returned"
                /\ calls[t].op \in {"umm_malloc", "umm_free", "umm_realloc"})
               => calls'[t].ret = calls[t].ret]_vars
  /\ [][(~HeapUnchanged /\ ~corrupted') =>
          \E t \in Callers : lock = t /\ calls[t].at = "inside"]_vars

\* A umm_realloc that read its block's size, was overtaken by another
\* caller's change of the heap before it entered, and returned a block.
ReallocOvertaken ==
  \E t \in Callers :
    /\ calls[t].op = "umm_realloc"
    /\ calls[t].at = "returned"
    /\ calls[t].path = "normal"
    /\ calls[t].overtaken
    /\ calls[t].ret # NULL
    /\ calls[t].ret \in calls[t].own

\* C18: on every return path of every public operation as many exits from
\* the critical section as entries have been executed, and the caller does
\* not hold the lock; the lock is held only between an entry and the exit.
ExitsMatchEnters ==
  \A t \in Callers :
    /\ calls[t].at = "returned" =>
         (calls[t].exits = calls[t].enters /\ lock # t)
    /\ lock = t <=> calls[t].at \in {"inside", "leaving"}
    /\ calls[t].at \in {"inside", "leaving"} => calls[t].enters = calls[t].exits + 1

\* One caller back from umm_info by the return on a match, the other back
\* from a umm_integrity_check that failed.
MatchAndFailureReturned ==
  \E t \in Callers, o \in Callers :
    /\ calls[t].op = "umm_info" /\ calls[t].at = "returned"
    /\ calls[t].path = "match" /\ calls[t].enters = 1
    /\ calls[o].op = "umm_integrity_check" /\ calls[o].at = "returned"
    /\ calls[o].ret = 0 /\ calls[o].enters = 1

(* ------------------------------------------------------------------ *)
(* End-to-end scenarios                                                *)
(* ------------------------------------------------------------------ *)

\* The scenario so far is the one query q, and its result.
OnlyQuery(q) == Len(history) = 1 /\ history[1].op = q

\* What holds right after umm_init_heap over 128 bytes whatever the usage
\* metric: one free run of 14 blocks, on the ring, 112 free bytes, no
\* fragmentation.
FreshHeapOfSixteen ==
  /\ umm_heap_current.numblocks = 16
  /\ history = <<>> =>
       (/\ FreeRuns(Heap) = {<<1, 14>>}
        /\ FreeWalk(Heap) = <<1>>
        /\ Chain(Heap) = {0, 1})
  /\ OnlyQuery("umm_free_heap_size") => history[1].ret = 112
  /\ OnlyQuery("umm_fragmentation_metric") => history[1].ret = 0

\* C21 (as the code has it): right after umm_init_heap over a region of 128
\* bytes (16 blocks of 8) and before any allocation the heap has one free
\* run of 14 blocks, umm_free_heap_size() returns 112, the fragmentation
\* metric is 0 and the usage metric is 0: no used block, 14 free ones.
InitThenIntrospect ==
  /\ FreshHeapOfSixteen
  /\ OnlyQuery("umm_usage_metric") => history[1].ret = 0

\* C21 (as stated): the same, with a usage metric of -1.
InitThenIntrospectNoUsage ==
  /\ FreshHeapOfSixteen
  /\ OnlyQuery("umm_usage_metric") => history[1].ret = 0 - 1

\* The usage metric asked of the fresh heap in the build where umm_info
\* counts the blocks: 14 blocks in all, none used.
UsageOfFreshHeapAsked ==
  /\ OnlyQuery("umm_usage_metric")
  /\ ~history[1].inline
  /\ ummHeapInfo.totalBlocks = 14
  /\ ummHeapInfo.usedBlocks = 0
  /\ ummHeapInfo.freeEntries = 1

\* A scenario that begins with umm_malloc(10) gives block 1 and makes it a
\* used block of k blocks, [1, 1 + k), in front of the free run; the
\* umm_free of that pointer, coming next, leaves the one free run of 14
\* blocks of the fresh heap.
AllocTenTakes(k) ==
  (Len(history) >= 1 /\ history[1].op = "umm_malloc" /\ history[1].size = 10) =>
    /\ history[1].ret = DataPtr(Heap, 1)
    /\ Len(history) = 1 =>
         (/\ ~IsFree(Heap, 1)
          /\ BlockRange(Heap, 1) = 1 .. k
          /\ FreeRuns(Heap) = {<<1 + k, 14 - k>>}
          /\ FreeWalk(Heap) = <<1 + k>>)
    /\ (Len(history) = 2 /\ history[2].op = "umm_free" /\ history[2].ptr = history[1].ret) =>
         (/\ FreeRuns(Heap) = {<<1, 14>>}
          /\ FreeWalk(Heap) = <<1>>
          /\ live = {})

\* C22 (as the code has it): on a fresh heap of 16 blocks umm_malloc(10)
\* returns the body of block 1 and takes 2 blocks: block 1 is a used block
\* spanning [1, 3) and the free run starts at block 3; freeing it restores
\* the single free run of 14 blocks.
AllocTenThenFree == AllocTenTakes(2)

\* C22 (as stated): the same with 3 blocks taken, [1, 4), the free run
\* starting at block 4.
AllocTenThenFreeOfThree == AllocTenTakes(3)

\* umm_malloc(10) on the fresh heap and the umm_free of what it returned.
AllocTenFreed ==
  /\ Len(history) = 2
  /\ history[1].op = "umm_malloc" /\ history[1].size = 10 /\ history[1].ret # NULL
  /\ history[2].op = "umm_free" /\ history[2].ptr = history[1].ret
  /\ FreeRuns(Heap) = {<<1, 14>>}

\* The scenario h: umm_malloc(4) twice, then umm_free of the second pointer.
TwoAllocatedSecondFreed(h) ==
  /\ Len(h) = 3
  /\ h[1].op = "umm_malloc" /\ h[1].size = 4
  /\ h[2].op = "umm_malloc" /\ h[2].size = 4
  /\ h[3].op = "umm_free" /\ h[3].ptr = h[2].ret

\* The step that follows it: umm_realloc of the first pointer to 12 bytes.
GrowFirstStep ==
  /\ TwoAllocatedSecondFreed(history)
  /\ Len(history') = 4
  /\ history'[4].op = "umm_realloc"
  /\ history'[4].ptr = history[1].ret
  /\ history'[4].size = 12

\* C23 (as the code has it): on a fresh heap of 16 blocks, after
\* umm_malloc(4) twice (blocks 1 and 2) and umm_free of the second pointer,
\* umm_realloc(first, 12) is served by case 3 (the free run that follows is
\* merged and what exceeds 2 blocks is split off and freed), returns the
\* first pointer, and leaves the free ring with as many entries as it had
\* just before the call: one, now starting at block 3.
ReallocGrowsByCaseThree ==
  [][GrowFirstStep =>
       /\ history[1].ret = DataPtr(Heap, 1)
       /\ history[2].ret = DataPtr(Heap, 2)
       /\ history'[4].rcase = 3
       /\ history'[4].ret = history[1].ret
       /\ Len(FreeWalk(Heap')) = Len(FreeWalk(Heap))
       /\ BlockRange(Heap', 1) = 1 .. 2
       /\ FreeRuns(Heap') = {<<3, 12>>}]_vars

\* C23 (as stated): the umm_realloc is served by case 2, returns the first
\* pointer, and leaves the ring with one entry fewer than before the call.
ReallocGrowsByCaseTwo ==
  [][GrowFirstStep =>
       /\ history[1].ret = DataPtr(Heap, 1)
       /\ history[2].ret = DataPtr(Heap, 2)
       /\ history'[4].rcase = 2
       /\ history'[4].ret = history[1].ret
       /\ Len(FreeWalk(Heap')) = Len(FreeWalk(Heap)) - 1]_vars

\* The scenario with the umm_realloc done: the first pointer is live and
\* its block has 12 usable bytes.
FirstGrownInPlace ==
  /\ Len(history) = 4
  /\ TwoAllocatedSecondFreed(SubSeq(history, 1, 3))
  /\ history[4].op = "umm_realloc" /\ history[4].ptr = history[1].ret /\ history[4].size = 12
  /\ history[4].ret = history[1].ret
  /\ UsableBytes(Heap, history[4].ret) = 12

(* ------------------------------------------------------------------ *)
(* Order of frees, chains of reallocations                             *)
(* ------------------------------------------------------------------ *)

\* The chain as it is linked: every chain block and the tail sentinel, with
\* its next_block (flag included) and prev_block.
ChainLinks(u) ==
  {<<c, UMM_NBLOCK(u, c), UMM_PBLOCK(u, c)>> : c \in Chain(u) \cup {ChainEnd(u)}}

\* umm_free(a); umm_free(b);
FreeBoth(u, a, b) == umm_free(umm_free(u, a), b)

\* In u the blocks of a and b, b's right behind a's, lie in one free run
\* that starts where the free run before a started in u0, if there was one,
\* and ends where the free run behind b ended, if there was one.
MergedWithNeighbours(u0, u, a, b) ==
  LET ca == BlockOf(u0, a)
      cb == BlockOf(u0, b)
      first == IF IsFree(u0, UMM_PBLOCK(u0, ca)) THEN UMM_PBLOCK(u0, ca) ELSE ca
      behind == NextIndex(u0, cb)
      end == IF IsFree(u0, behind) THEN NextIndex(u0, behind) ELSE behind
  IN  <<first, end - first>> \in FreeRuns(u)

\* C24: for any two live allocations a and b, in any reachable heap state,
\* umm_free(a); umm_free(b) and umm_free(b); umm_free(a) give the same set
\* of free runs (start, length), all on the ring, and the same chain; two
\* allocations next to each other in the chain end up, in either order, in
\* one free run together with the free runs next to them.  (Every heap
\* state is reached with last = NoCall as well, so only those are looked at.)
FreesCommute ==
  last = NoCall =>
  \A a \in live, b \in live :
    a # b =>
      \E x \in {FreeBoth(Heap, a, b)}, y \in {FreeBoth(Heap, b, a)} :
        /\ FreeRuns(x) = FreeRuns(y)
        /\ ChainLinks(x) = ChainLinks(y)
        /\ FreeRing(x) = FreeBlocks(x)
        /\ FreeRing(y) = FreeBlocks(y)
        /\ x.info = y.info
        /\ NextIndex(Heap, BlockOf(Heap, a)) = BlockOf(Heap, b) =>
             (MergedWithNeighbours(Heap, x, a, b) /\ MergedWithNeighbours(Heap, y, a, b))

\* Two live allocations next to each other, a free run in front of them
\* and one behind them.
TwoLiveBetweenFreeRuns ==
  \E a \in live, b \in live :
    /\ NextIndex(Heap, BlockOf(Heap, a)) = BlockOf(Heap, b)
    /\ IsFree(Heap, UMM_PBLOCK(Heap, BlockOf(Heap, a)))
    /\ IsFree(Heap, NextIndex(Heap, BlockOf(Heap, b)))

\* The sizes of the chained reallocations: one, two and three blocks.
ChainSizes == {SizeofBody, SizeofBody + 1, UMM_BLOCKSIZE * 2 + SizeofBody}

\* umm_realloc(umm_realloc(p, s1), s2); first is the inner call's result.
ReallocTwice(u, f, p, s1, s2) ==
  Do(umm_realloc(u, f, p, s1), LAMBDA r1 :
  IF r1.ptr = NULL
    THEN [first |-> r1, then |-> r1]
    ELSE [first |-> r1, then |-> umm_realloc(r1.u, f, r1.ptr, s2)])

\* The first n bytes of the region at ptr.
Prefix(u, ptr, n) == [j \in 0 .. n - 1 |-> u.mem[(ptr - u.pheap) + j]]

\* C25: in any reachable heap state, for a live pointer p with s0 usable
\* bytes and sizes s1, s2 > 0, if umm_realloc(p, s1), then umm_realloc of
\* its result to s2, and umm_realloc(p, s2) alone all succeed, the first
\* min(s0, s1, s2) bytes of the two final regions are equal.  (Every heap
\* state is reached with last = NoCall as well, so only those are looked at.)
ReallocChainsAgree ==
  last = NoCall =>
  \A p \in live, s1 \in ChainSizes, s2 \in ChainSizes :
    \E x \in {ReallocTwice(Heap, fit, p, s1, s2)}, y \in {umm_realloc(Heap, fit, p, s2)} :
      (x.first.ptr # NULL /\ x.then.ptr # NULL /\ y.ptr # NULL) =>
        \E n \in {Min(UsableBytes(Heap, p), Min(s1, s2))} :
          Prefix(x.then.u, x.then.ptr, n) = Prefix(y.u, y.ptr, n)

\* A live region with data whose chain of two reallocations moves it to a
\* new block and then shrinks it, while the single reallocation leaves it
\* where it is.
ReallocChainMoves ==
  \E p \in DataRegions(Heap, live), s1 \in ChainSizes, s2 \in ChainSizes :
    \E x \in {ReallocTwice(Heap, fit, p, s1, s2)}, y \in {umm_realloc(Heap, fit, p, s2)} :
      /\ x.first.ptr # NULL /\ x.then.ptr # NULL /\ y.ptr # NULL
      /\ x.first.rcase = 6
      /\ x.then.ptr # y.ptr
      /\ \A j \in 0 .. Min(UsableBytes(Heap, p), Min(s1, s2)) - 1 :
           Heap.mem[(p - Heap.pheap) + j] = Pattern(j)

(* ------------------------------------------------------------------ *)
(* The number of blocks of a size                                      *)
(* ------------------------------------------------------------------ *)

\* a / b rounded up, for a >= 0 and b > 0.
CeilDiv(a, b) == (a + b - 1) \div b

\* ceil((s - (B - 4)) / B) + extra for s > B - 4, and 1 for s <= B - 4.
BlocksFormula(s, extra) ==
  IF s <= UMM_BLOCKSIZE - 4
    THEN 1
    ELSE CeilDiv(s - (UMM_BLOCKSIZE - 4), UMM_BLOCKSIZE) + extra

\* The blocks the region umm_malloc has just returned spans.
SpanOfLast == U16(UMM_NBLOCK(Heap, BlockOf(Heap, last.ret)) - BlockOf(Heap, last.ret))

\* umm_malloc of at least one byte has just succeeded.
MallocSucceeded == last.op = "umm_malloc" /\ last.size >= 1 /\ last.ret # NULL

\* C30 as stated: the block umm_malloc(s) takes spans
\* ceil((s - (B - 4)) / B) + 2 blocks for s > B - 4 and 1 block for
\* s <= B - 4.
BlocksForAddsTwo ==
  MallocSucceeded =>
    (SpanOfLast = BlocksFormula(last.size, 2) /\ umm_blocks(last.size) = BlocksFormula(last.size, 2))

\* C30: the block umm_malloc(s) takes spans ceil((s - (B - 4)) / B) + 1
\* blocks for s > B - 4 (no clamping at these sizes) and 1 block for
\* s <= B - 4; this is what umm_blocks(s) computes.
BlocksForAddsOne ==
  MallocSucceeded =>
    (SpanOfLast = BlocksFormula(last.size, 1) /\ umm_blocks(last.size) = BlocksFormula(last.size, 1))

\* umm_malloc of B + (B - 4) bytes, the most two blocks hold, succeeded.
MallocFilledTwoBlocks ==
  /\ MallocSucceeded
  /\ last.size = UMM_BLOCKSIZE + (UMM_BLOCKSIZE - 4)
  /\ SpanOfLast = 2

(* ------------------------------------------------------------------ *)
(* umm_info: the probe and the record                                  *)
(* ------------------------------------------------------------------ *)

\* Caller t's umm_info has walked the heap and has not yet left the
\* critical section.
InfoDone(t) == calls[t].fn = "umm_info" /\ calls[t].at = "leaving"

\* The blocks the walk of umm_info visits: the chain behind block 0.
Visited == Chain(Heap) \ {0}

\* The address of the header of block b.
HeaderOf(b) == umm_heap_current.pheap + OffNBLOCK(b)

\* C26 as stated: umm_info(probe) returns probe if probe is the address of
\* the header of a chain block, used or free, and NULL otherwise.
InfoFindsAnyBlock ==
  \A t \in Callers :
    InfoDone(t) =>
      calls[t].ret = IF \E b \in Visited : calls[t].ptr = HeaderOf(b)
                       THEN calls[t].ptr
                       ELSE NULL

\* C26: umm_info(probe) returns probe if probe is the address of the
\* header of a free chain block, and NULL otherwise: for NULL, for the
\* header of a used block and for any other address.
InfoFindsFreeBlock ==
  \A t \in Callers :
    InfoDone(t) =>
      calls[t].ret = IF \E b \in Visited : IsFree(Heap, b) /\ calls[t].ptr = HeaderOf(b)
                       THEN calls[t].ptr
                       ELSE NULL

\* umm_info was asked for the header of block 1, a used block, and gives
\* NULL, while the other caller's probe of a free block's header was found.
InfoMissedUsedBlock ==
  \E t \in Callers, o \in Callers :
    /\ InfoDone(t)
    /\ calls[t].ptr = HeaderOf(1)
    /\ ~IsFree(Heap, 1)
    /\ calls[t].ret = NULL
    /\ calls[o].fn = "umm_info" /\ calls[o].at = "returned"
    /\ calls[o].ret # NULL

\* The blocks of the free runs, counted.
FreeRunBlocks == Cardinality(UNION {r[1] .. (r[1] + r[2]) - 1 : r \in FreeRuns(Heap)})

\* C27: when umm_info has walked the heap, with the probe found or not, the
\* record describes the whole chain: totalBlocks = usedBlocks + freeBlocks
\* = N - 2, totalEntries = usedEntries + freeEntries, freeBlocks is the sum
\* of the lengths of the free runs, and usage_metric is
\* 100 * usedBlocks / freeBlocks, or -1 without free blocks.
InfoDescribesChain ==
  \A t \in Callers :
    InfoDone(t) =>
      /\ ummHeapInfo.totalBlocks = ummHeapInfo.usedBlocks + ummHeapInfo.freeBlocks
      /\ ummHeapInfo.totalBlocks = umm_heap_current.numblocks - 2
      /\ ummHeapInfo.totalEntries = ummHeapInfo.usedEntries + ummHeapInfo.freeEntries
      /\ ummHeapInfo.totalEntries = Cardinality(Visited)
      /\ ummHeapInfo.freeBlocks = FreeRunBlocks
      /\ ummHeapInfo.usage_metric =
           IF ummHeapInfo.freeBlocks = 0
             THEN 0 - 1
             ELSE (100 * ummHeapInfo.usedBlocks) \div ummHeapInfo.freeBlocks

\* The same of the calls that return NULL.
InfoDescribesChainAtEnd ==
  \A t \in Callers :
    (InfoDone(t) /\ calls[t].path = "end") =>
      /\ ummHeapInfo.totalBlocks = ummHeapInfo.usedBlocks + ummHeapInfo.freeBlocks
      /\ ummHeapInfo.totalBlocks = umm_heap_current.numblocks - 2
      /\ ummHeapInfo.totalEntries = ummHeapInfo.usedEntries + ummHeapInfo.freeEntries
      /\ ummHeapInfo.totalEntries = Cardinality(Visited)
      /\ ummHeapInfo.freeBlocks = FreeRunBlocks
      /\ ummHeapInfo.usage_metric =
           IF ummHeapInfo.freeBlocks = 0
             THEN 0 - 1
             ELSE (100 * ummHeapInfo.usedBlocks) \div ummHeapInfo.freeBlocks

(* ------------------------------------------------------------------ *)
(* umm_integrity_check on a sound heap                                 *)
(* ------------------------------------------------------------------ *)

\* Caller t runs, in this step, the two loops of umm_integrity_check.
IntegrityStep(t) ==
  /\ calls[t].fn = "umm_integrity_check"
  /\ calls[t].at = "inside"
  /\ calls'[t].at = "leaving"

\* C28: on a heap on which the invariants of the structure hold (chain
\* order and backlinks, ring, flags, no free neighbours, sentinels),
\* umm_integrity_check finds ok = true and leaves every byte of the heap,
\* hence next_block, prev_block, next_free and prev_free of every block, as
\* it was; no prev_block of the chain keeps UMM_FREELIST_MASK.
IntegrityKeepsSoundHeap ==
  [][\A t \in Callers :
       (IntegrityStep(t) /\ HeapInvariants) =>
         /\ calls'[t].ret = 1
         /\ calls'[t].path = "end"
         /\ heap' = heap
         /\ \A b \in Chain(Heap) \cup {UMM_BLOCK_LAST(Heap)} :
              FreeBit(Rd16(heap', OffPBLOCK(b))) = 0]_vars

\* umm_integrity_check has found a heap sound that has two used blocks
\* and behind them a free run, which it marked and unmarked.
IntegrityPassedUsedAndFree ==
  \E t \in Callers :
    /\ calls[t].fn = "umm_integrity_check"
    /\ calls[t].at = "leaving"
    /\ calls[t].ret = 1
    /\ HeapInvariants
    /\ ~IsFree(Heap, 1) /\ ~IsFree(Heap, 2)
    /\ FreeBlocks(Heap) = {3}

(* ------------------------------------------------------------------ *)
(* Damaged poison                                                      *)
(* ------------------------------------------------------------------ *)

\* The call made after the poison of a live region was overwritten.
CallOnDamage ==
  corrupted /\ last.op \in {"umm_poison_free", "umm_poison_realloc", "umm_poison_check"}

\* C29: when the poison before or after a used block has been overwritten,
\* umm_poison_free and umm_poison_realloc of that block and
\* umm_poison_check each invoke UMM_HEAP_CORRUPTION_CB, and
\* umm_poison_check returns false.
PoisonDamageReported ==
  CallOnDamage =>
    /\ callbacks > 0
    /\ last.op = "umm_poison_check" => last.ret = 0

\* What the code does on damaged poison: check_poison_block finds it in
\* each of the three, umm_poison_check returns false, and no callback is
\* invoked.
PoisonDamageOnlyFound ==
  CallOnDamage =>
    /\ callbacks = 0
    /\ last.op = "umm_poison_check" => last.ret = 0
    /\ last.op # "umm_poison_check" => last.num = 0

(* ------------------------------------------------------------------ *)
(* umm_realloc: which case, and what is left                           *)
(* ------------------------------------------------------------------ *)

\* The length of the free run that starts at block b, 0 if b is not free.
FreeLen(u, b) == IF IsFree(u, b) THEN NextIndex(u, b) - b ELSE 0

\* The first case of the table that matches, for a block of blockSize with
\* prevFree free blocks in front, nextFree behind, and k blocks asked for.
FirstCase(blockSize, nextFree, prevFree, k) ==
  IF blockSize >= k THEN 1
  ELSE IF blockSize + nextFree = k THEN 2
  ELSE IF prevFree = 0 /\ blockSize + nextFree >= k THEN 3
  ELSE IF prevFree + blockSize >= k THEN 4
  ELSE IF prevFree + blockSize + nextFree >= k THEN 5
  ELSE 6

\* The step is a umm_realloc of a live pointer to a size above 0.
ReallocOfLive == last'.op = "umm_realloc" /\ last'.ptr # NULL /\ last'.size > 0

\* C31: umm_realloc(p, s) with live p and s > 0 takes the first case of
\* the table that matches; it returns p in cases 1, 2 and 3, the body of
\* prev_block(c) in cases 4 and 5, and goes for a new block (case 6, which
\* returns another pointer or NULL) only when prevFree + blockSize +
\* nextFree < k.
ReallocTakesFirstCase ==
  [][ReallocOfLive =>
       \E c \in {BlockOf(Heap, last'.ptr)} :
         \E n \in {FirstCase(NextIndex(Heap, c) - c,
                             FreeLen(Heap, NextIndex(Heap, c)),
                             FreeLen(Heap, UMM_PBLOCK(Heap, c)),
                             umm_blocks(last'.size))} :
           /\ last'.rcase = n
           /\ n \in 1 .. 3 => last'.ret = last'.ptr
           /\ n \in 4 .. 5 => last'.ret = DataPtr(Heap, UMM_PBLOCK(Heap, c))
           /\ n = 6 => last'.ret # last'.ptr
           /\ n = 6 <=> (FreeLen(Heap, UMM_PBLOCK(Heap, c)) + (NextIndex(Heap, c) - c)
                           + FreeLen(Heap, NextIndex(Heap, c)) < umm_blocks(last'.size))]_vars

\* umm_realloc grew a block into the free run behind it, which fitted
\* exactly (case 2), though the block in front of it was free too.
ReallocExactBeforeFreePrev ==
  /\ last.op = "umm_realloc"
  /\ last.rcase = 2
  /\ last.ret = last.ptr
  /\ IsFree(Heap, UMM_PBLOCK(Heap, BlockOf(Heap, last.ret)))

\* Where the extent that case n builds around block c starts and ends.
ExtentStart(u, c, n) == IF n \in 4 .. 5 THEN UMM_PBLOCK(u, c) ELSE c

ExtentEnd(u, c, n) ==
  IF n \in {2, 3, 5} THEN NextIndex(u, NextIndex(u, c)) ELSE NextIndex(u, c)

\* C32: after a umm_realloc with s > 0 that returns a pointer, the block
\* returned is used and spans umm_blocks(s) blocks; when cases 1 to 5
\* built an extent of more than that, the block at c + k is free on
\* return, is on the ring, and reaches to the end of the extent, or to the
\* end of the free run that followed the extent.
ReallocSplitsOffTail ==
  [][(last'.op = "umm_realloc" /\ last'.size > 0 /\ last'.ret # NULL) =>
       \E k \in {umm_blocks(last'.size)}, cn \in {BlockOf(Heap', last'.ret)} :
         /\ ~IsFree(Heap', cn)
         /\ NextIndex(Heap', cn) - cn = k
         /\ (last'.ptr # NULL /\ last'.rcase \in 1 .. 5) =>
              \E c \in {BlockOf(Heap, last'.ptr)} :
                \E end \in {ExtentEnd(Heap, c, last'.rcase)} :
                  /\ cn = ExtentStart(Heap, c, last'.rcase)
                  /\ end - cn >= k
                  /\ end - cn > k =>
                       /\ IsFree(Heap', cn + k)
                       /\ cn + k \in FreeRing(Heap')
                       /\ NextIndex(Heap', cn + k)
                            = IF IsFree(Heap, end) THEN NextIndex(Heap, end) ELSE end
                       /\ ~IsFree(Heap', NextIndex(Heap', cn + k))]_vars

\* umm_realloc moved a block down into the free block in front (case 4)
\* and the tail it split off lies in a free run of two blocks or more that
\* ends at the tail sentinel.
ReallocTailInFreeRun ==
  /\ last.op = "umm_realloc"
  /\ last.rcase = 4
  /\ last.ret # NULL
  /\ \E t \in {NextIndex(Heap, BlockOf(Heap, last.ret))} :
       /\ IsFree(Heap, t)
       /\ RunSize(Heap, t) >= 2
       /\ NextIndex(Heap, t) = UMM_BLOCK_LAST(Heap)

(* ------------------------------------------------------------------ *)
(* Which free run umm_malloc takes                                     *)
(* ------------------------------------------------------------------ *)

\* The places on the ring, counted from next_free(0), of the runs of k
\* blocks or more.
Fits(u, k) == {i \in 1 .. Len(FreeWalk(u)) : RunSize(u, FreeWalk(u)[i]) >= k}

\* The smallest of them, the earliest of the smallest.
BestPick(u, k) ==
  FreeWalk(u)[CHOOSE i \in Fits(u, k) :
                \A j \in Fits(u, k) :
                  \/ RunSize(u, FreeWalk(u)[i]) < RunSize(u, FreeWalk(u)[j])
                  \/ (RunSize(u, FreeWalk(u)[i]) = RunSize(u, FreeWalk(u)[j]) /\ i <= j)]

\* The earliest of them.
FirstPick(u, k) == FreeWalk(u)[CHOOSE i \in Fits(u, k) : \A j \in Fits(u, k) : i <= j]

\* The step is a umm_malloc of at least one byte under policy f.
MallocUnder(f) == last'.op = "umm_malloc" /\ last'.size >= 1 /\ fit = f

\* C33: under UMM_BEST_FIT a umm_malloc(s) that succeeds takes the free run
\* that is smallest among the runs of the ring with umm_blocks(s) blocks
\* or more, and of several smallest ones the one met first from
\* next_free(0).
BestFitTakesSmallest ==
  [][(MallocUnder("UMM_BEST_FIT") /\ last'.ret # NULL) =>
       /\ Fits(Heap, umm_blocks(last'.size)) # {}
       /\ BlockOf(Heap, last'.ret) = BestPick(Heap, umm_blocks(last'.size))]_vars

\* Best fit took a whole run for a request of one block, while the run at
\* the head of the ring, two blocks or longer, stays free.
BestFitLeftLargerRun ==
  /\ fit = "UMM_BEST_FIT"
  /\ last.op = "umm_malloc" /\ last.size = SizeofBody /\ last.ret # NULL
  /\ ~IsFree(Heap, NextIndex(Heap, BlockOf(Heap, last.ret)))
  /\ UMM_NFREE(Heap, 0) # 0
  /\ RunSize(Heap, UMM_NFREE(Heap, 0)) >= 2

\* C34: under UMM_FIRST_FIT a umm_malloc(s) that succeeds takes the first
\* run, in next_free order from block 0, of umm_blocks(s) blocks or more;
\* it returns NULL when the walk comes to 0 without meeting one.
FirstFitTakesFirst ==
  [][MallocUnder("UMM_FIRST_FIT") =>
       /\ last'.ret = NULL <=> Fits(Heap, umm_blocks(last'.size)) = {}
       /\ last'.ret # NULL =>
            BlockOf(Heap, last'.ret) = FirstPick(Heap, umm_blocks(last'.size))]_vars

\* First fit split a longer run for a request of one block, while a run of
\* exactly one block stays free.
FirstFitSplitLargerRun ==
  /\ fit = "UMM_FIRST_FIT"
  /\ last.op = "umm_malloc" /\ last.size = SizeofBody /\ last.ret # NULL
  /\ IsFree(Heap, NextIndex(Heap, BlockOf(Heap, last.ret)))
  /\ \E f \in FreeBlocks(Heap) : RunSize(Heap, f) = 1

(* ------------------------------------------------------------------ *)
(* The heap umm_init_heap leaves                                       *)
(* ------------------------------------------------------------------ *)

\* Block N - 1 has next_block index 0 and no free flag, and block 1 is a
\* free run that spans [1, N - 1).
FreshHeapShape ==
  /\ UMM_NBLOCK(Heap, UMM_BLOCK_LAST(Heap)) = 0
  /\ UMM_NBLOCK(Heap, 1) = OrMask(UMM_BLOCK_LAST(Heap), UMM_FREELIST_MASK)
  /\ UMM_NFREE(Heap, 0) = 1
  /\ UMM_NBLOCK(Heap, 0) = 1

\* C35: for every region size that gives N >= 2 blocks, right after
\* umm_init_heap block N - 1 is the tail sentinel, with next_block index 0
\* and no free flag, block 1 is a free run spanning [1, N - 1), and the
\* chain walk from block 0 (that of umm_info) ends.
InitGivesSentinels ==
  /\ (last.op = "umm_init_heap" /\ umm_heap_current.numblocks >= 2) => FreshHeapShape
  /\ (last.op = "umm_info" /\ umm_heap_current.numblocks >= 2) => ~last.diverged

\* The same for the regions that give N >= 3 blocks; there the walk visits
\* the one free block and the record counts N - 2 free blocks.
InitGivesSentinelsFromThree ==
  /\ (last.op = "umm_init_heap" /\ umm_heap_current.numblocks >= 3) => FreshHeapShape
  /\ (last.op = "umm_info" /\ umm_heap_current.numblocks >= 3) =>
       /\ ~last.diverged
       /\ last.num = 1
       /\ ummHeapInfo.freeBlocks = umm_heap_current.numblocks - 2

(* ------------------------------------------------------------------ *)
(* The inline metric accumulators                                      *)
(* ------------------------------------------------------------------ *)

\* The sum of the lengths (sq = FALSE) or of the squared lengths of the runs in S.
RECURSIVE RunSum(_, _)
RunSum(S, sq) ==
  IF S = {} THEN 0
  ELSE LET r == CHOOSE x \in S : TRUE
       IN  (IF sq THEN r[2] * r[2] ELSE r[2]) + RunSum(S \ {r}, sq)

\* The accumulators agree with the free runs of the chain.  The sequences of
\* Spec, which have no umm_info, keep this in every state.
AccumulatorsMatchRuns ==
  /\ ummHeapInfo.freeBlocks = RunSum(FreeRuns(Heap), FALSE)
  /\ ummHeapInfo.freeBlocksSquared = RunSum(FreeRuns(Heap), TRUE)

\* C36: with the inline metrics, after umm_init_heap and after every
\* public operation of any sequence (umm_malloc, umm_free, every case of
\* umm_realloc, and umm_info, also when its probe matches a free block)
\* freeBlocks is the sum of the lengths of the free runs and
\* freeBlocksSquared the sum of their squares.
InlineMetricsMatchRuns == AccumulatorsMatchRuns

(* ------------------------------------------------------------------ *)
(* The walk over the free ring                                         *)
(* ------------------------------------------------------------------ *)

\* C37: in every heap state the public operations reach, the walk of
\* umm_malloc over the free ring (from next_free(0), along next_free, until
\* 0) ends, and visits each free run at most once; this includes the empty
\* ring and the ring of one node.
FreeRingWalkEnds ==
  [][(last'.op = "umm_malloc" /\ last'.size > 0) =>
       LET w == FreeWalk(Heap)
           s == ScanChoice(Heap, fit, umm_blocks(last'.size))
       IN  /\ ~last'.diverged
           /\ ~s.diverged
           /\ s.visited <= Len(w)
           /\ (fit = "UMM_BEST_FIT" => s.visited = Len(w))
           /\ \A i, j \in 1 .. Len(w) : w[i] = w[j] => i = j
           /\ Len(w) = Cardinality(FreeBlocks(Heap))
           /\ (Len(w) > 0 => UMM_NFREE(Heap, w[Len(w)]) = 0)
           /\ (UMM_NFREE(Heap, 0) = 0 => s.visited = 0)
           /\ (Len(w) = 1 => s.visited = 1)]_vars

\* umm_malloc has walked the empty ring: it returned NULL and no block is free.
WalkedEmptyRing ==
  /\ last.op = "umm_malloc"
  /\ last.size > 0
  /\ last.ret = NULL
  /\ UMM_NFREE(Heap, 0) = 0
  /\ FreeBlocks(Heap) = {}

(* ------------------------------------------------------------------ *)
(* The first allocation on a fresh heap                                *)
(* ------------------------------------------------------------------ *)

\* The largest size a fresh heap of n blocks gives.
FreshLimit(n) == ((n - 2) * UMM_BLOCKSIZE) - SizeofHeader

\* C38: on a freshly initialised heap of N blocks umm_malloc(s) succeeds
\* exactly for 1 <= s <= (N - 2) * B - 4 and returns NULL for every larger
\* s; a request that needs all N - 2 blocks between the sentinels succeeds
\* and leaves the free ring empty, next_free(0) = 0.
FreshHeapGivesAllButSentinels ==
  last.op = "umm_malloc" =>
    /\ ~last.diverged
    /\ (last.ret # NULL) <=>
         (1 <= last.size /\ last.size <= FreshLimit(umm_heap_current.numblocks))
    /\ (last.size >= 1 /\ umm_blocks(last.size) = umm_heap_current.numblocks - 2) =>
         /\ last.ret = DataPtr(Heap, 1)
         /\ UMM_NFREE(Heap, 0) = 0
         /\ FreeBlocks(Heap) = {}

\* The largest size a fresh heap gives was asked for, under first fit, on
\* a heap of more than three blocks.
FreshHeapTakenWhole ==
  /\ last.op = "umm_malloc"
  /\ fit = "UMM_FIRST_FIT"
  /\ umm_heap_current.numblocks > 3
  /\ last.size = FreshLimit(umm_heap_current.numblocks)
  /\ last.ret # NULL
  /\ NextIndex(Heap, 1) = UMM_BLOCK_LAST(Heap)
  /\ UMM_NFREE(Heap, 0) = 0

(* ------------------------------------------------------------------ *)
(* The free ring closes through block 0                                *)
(* ------------------------------------------------------------------ *)

\* C39: the free list is a closed ring through block 0: in every state the
\* public operations reach, prev_free(0) is the last node met by following
\* next_free from block 0 (the node whose next_free is 0), or 0 when no
\* block is free, and prev_free of the first node is 0.
FreeRingClosed ==
  LET w == FreeWalk(Heap)
  IN  /\ UMM_PFREE(Heap, 0) = IF Len(w) = 0 THEN 0 ELSE w[Len(w)]
      /\ Len(w) > 0 =>
            /\ UMM_NFREE(Heap, w[Len(w)]) = 0
            /\ UMM_PFREE(Heap, w[1]) = 0

\* A free onto the empty ring after the only free run was taken: block 0
\* points forward and back to a node that is not block 1.
RingClosedOnLateNode ==
  /\ last.op = "umm_free"
  /\ last.ptr # NULL
  /\ Len(FreeWalk(Heap)) = 1
  /\ UMM_NFREE(Heap, 0) > 1
  /\ UMM_PFREE(Heap, 0) = UMM_NFREE(Heap, 0)

(* ------------------------------------------------------------------ *)
(* umm_integrity_check ends on any heap                                *)
(* ------------------------------------------------------------------ *)

\* C40: umm_integrity_check ends and returns a boolean whatever the heap
\* holds (any next_block, prev_block, next_free, prev_free in any block,
\* free rings and chains with cycles or indices out of range included); it
\* never loops for ever on a damaged heap.
IntegrityCheckEnds ==
  last.op = "umm_integrity_check" =>
    /\ ~last.diverged
    /\ last.ret \in {0, 1}
    /\ last.size < umm_heap_current.numblocks
    /\ last.num < umm_heap_current.numblocks
    /\ callbacks = 1 - last.ret

\* The check has returned false on a heap whose next_free links run in a
\* cycle that does not pass block 0, after following them for two nodes.
IntegrityLeftFreeCycle ==
  /\ last.op = "umm_integrity_check"
  /\ last.ret = 0
  /\ last.size >= 2
  /\ Len(FreeWalk(Heap)) = umm_heap_current.numblocks + 1

====
